---- MODULE Spec2Model ----
(***************************************************************************)
(* PulseVote backend: the user store, the login lockout state machine,     *)
(* the JWT issuer/verifier and the access guard, as a state machine.       *)
(*                                                                         *)
(* Strings that the code measures or normalises (username, password,      *)
(* email) are sequences of characters: an ASCII character is a             *)
(* one-character string, a character a string of the module cannot hold    *)
(* is the string of its code point ("U+00A0").  The characters modelled    *)
(* are ASCII and the white space outside ASCII.  A message is a sequence   *)
(* of parts: fixed text, and the characters of a value quoted in it.  An   *)
(* optional document field (a Date that may be unset) is the empty         *)
(* sequence when absent and <<t>> when set; t is in milliseconds, as       *)
(* Date.now() is.                                                          *)
(*                                                                         *)
(* A request is a slot of reqs.  A handler takes one step when the request *)
(* arrives and one step each time an operation it awaits resolves: a login *)
(* is its validation (LoginStart), the checks after findOne (LoginFound),  *)
(* the assignments after the password comparison (LoginCompared) and the   *)
(* answer after its write (LoginFinish).  Every step reads the clock anew: *)
(* a request records the instant it arrived (at), the instant of the       *)
(* checks after its first read (checked), the instant it read for a value  *)
(* it writes (stamp) and the instant of its answer (end).                  *)
(***************************************************************************)
EXTENDS Integers, Sequences, FiniteSets, TLC

VARIABLES
  users,  \* the users collection: id -> document, or Null
  now,    \* Date.now(), in milliseconds
  ticks,  \* how many times the clock has advanced
  reqs,   \* the requests: slot -> position, inputs, copy of the document, response
  hist,   \* per user: failed password checks in a row, and when the last one ran
  polls,  \* the polls collection, in insertion order
  hits    \* the two rate limiters' stores: client IP -> hits and window end

vars == <<users, now, ticks, reqs, hist, polls, hits>>

\* ------------------------------------------------------------------ bounds

MaxUsers == 2
MaxReqs == 2
MaxTicks == 4
MaxApiTicks == 1
MaxRaceTicks == 2
MaxPolls == 1
MaxVotes == 2

Ids == 1..MaxUsers
Reqs == 1..MaxReqs

\* --------------------------------------------------------------- constants

LockThreshold == 5
LockMs == 2 * 60 * 60 * 1000
MinPassword == 6
TokenSeconds == 7 * 24 * 60 * 60
Secret == "JWT_SECRET"
OtherKey == "attacker-key"

\* ------------------------------------------------------------------ values

Absent == <<>>
Some(t) == <<t>>
Null == [null |-> TRUE]

Alice == <<"a", "l", "i", "c", "e">>
Bob == <<"b", "o", "b">>
Secret1 == <<"S", "e", "c", "r", "e", "t", "1">>
WrongPw == <<"W", "r", "o", "n", "g", "P", "w">>
AliceMail == <<"a", "@", "x">>
BobMail == <<"B", "@", "x">>

Roles == {"user", "moderator", "admin"}

NoFields == [f \in {} |-> Absent]

\* ---------------------------------------------------------------- User.js

\* String setters of the schema: trim (username) and lowercase (email).

\* A character a string of the module cannot hold (a character outside
\* ASCII, the backquote) is written by its code point, "U+00A0"; every
\* element of a sequence of characters is then a string.

\* The UTF-8 encoding of the characters written by code point.
Utf8 ==
  [c \in {"U+00A0"} |-> <<"xC2", "xA0">>]
    @@ [c \in {"U+1680"} |-> <<"xE1", "x9A", "x80">>]
    @@ [c \in {"U+2000"} |-> <<"xE2", "x80", "x80">>]
    @@ [c \in {"U+2001"} |-> <<"xE2", "x80", "x81">>]
    @@ [c \in {"U+2002"} |-> <<"xE2", "x80", "x82">>]
    @@ [c \in {"U+2003"} |-> <<"xE2", "x80", "x83">>]
    @@ [c \in {"U+2004"} |-> <<"xE2", "x80", "x84">>]
    @@ [c \in {"U+2005"} |-> <<"xE2", "x80", "x85">>]
    @@ [c \in {"U+2006"} |-> <<"xE2", "x80", "x86">>]
    @@ [c \in {"U+2007"} |-> <<"xE2", "x80", "x87">>]
    @@ [c \in {"U+2008"} |-> <<"xE2", "x80", "x88">>]
    @@ [c \in {"U+2009"} |-> <<"xE2", "x80", "x89">>]
    @@ [c \in {"U+200A"} |-> <<"xE2", "x80", "x8A">>]
    @@ [c \in {"U+2028"} |-> <<"xE2", "x80", "xA8">>]
    @@ [c \in {"U+2029"} |-> <<"xE2", "x80", "xA9">>]
    @@ [c \in {"U+202F"} |-> <<"xE2", "x80", "xAF">>]
    @@ [c \in {"U+205F"} |-> <<"xE2", "x81", "x9F">>]
    @@ [c \in {"U+3000"} |-> <<"xE3", "x80", "x80">>]
    @@ [c \in {"U+FEFF"} |-> <<"xEF", "xBB", "xBF">>]
    @@ [c \in {"U+0060"} |-> <<"x60">>]

\* The white space and line terminators String.prototype.trim removes:
\* tab, line feed, vertical tab, form feed, carriage return, space, and
\* those outside ASCII (no-break space, the Unicode space separators, the
\* line and paragraph separators, the byte order mark).
WhiteSpace ==
  {"\t", "\n", "", "\f", "\r", " "} \cup (DOMAIN Utf8 \ {"U+0060"})

RECURSIVE trimLeft(_)
trimLeft(s) == IF s # <<>> /\ Head(s) \in WhiteSpace THEN trimLeft(Tail(s)) ELSE s

RECURSIVE trimRight(_)
trimRight(s) ==
  IF s # <<>> /\ s[Len(s)] \in WhiteSpace
    THEN trimRight(SubSeq(s, 1, Len(s) - 1))
    ELSE s

trim(s) == trimRight(trimLeft(s))

UpperCase ==
  <<"A", "B", "C", "D", "E", "F", "G", "H", "I", "J", "K", "L", "M",
    "N", "O", "P", "Q", "R", "S", "T", "U", "V", "W", "X", "Y", "Z">>

LowerCase ==
  <<"a", "b", "c", "d", "e", "f", "g", "h", "i", "j", "k", "l", "m",
    "n", "o", "p", "q", "r", "s", "t", "u", "v", "w", "x", "y", "z">>

\* toLowerCase of one character: every letter A-Z, any other character as
\* it is.
lowerChar(c) ==
  IF \E i \in DOMAIN UpperCase : UpperCase[i] = c
    THEN LowerCase[CHOOSE i \in DOMAIN UpperCase : UpperCase[i] = c]
    ELSE c

lowercase(s) == [i \in 1..Len(s) |-> lowerChar(s[i])]

\* The bytes of a string as bcrypt is handed them (UTF-8).
RECURSIVE utf8(_)
utf8(s) ==
  IF s = <<>> THEN <<>>
  ELSE (IF Head(s) \in DOMAIN Utf8 THEN Utf8[Head(s)] ELSE <<Head(s)>>) \o utf8(Tail(s))

\* bcrypt.hash(password, 10): the salted digest, never the plaintext.  The
\* digest is a function of the first 72 bytes of the password; it stands
\* here as the prefix followed by those bytes.
bcryptHash(password) ==
  LET b == utf8(password)
  IN <<"$2b$10$">> \o SubSeq(b, 1, IF Len(b) < 72 THEN Len(b) ELSE 72)

\* bcrypt.compare(entered, stored): the digest of entered under the salt of
\* stored, compared with stored.
bcryptCompare(entered, stored) == stored = bcryptHash(entered)

matchPassword(doc, enteredPassword) == bcryptCompare(enteredPassword, doc.password)

\* A lock that never runs out: any stored expiry counts as locked.
isLockedWhileStored(doc, t) == doc.lockUntil # Absent

\* A lock that still holds at the instant of its expiry.
isLockedInclusive(doc, t) == doc.lockUntil # Absent /\ doc.lockUntil[1] >= t

\* virtual isLocked: !!(this.lockUntil && this.lockUntil > Date.now())
isLocked(doc, t) == doc.lockUntil # Absent /\ doc.lockUntil[1] > t

\* incrementLoginAttempts locking one failure late (the + 1 forgotten).
incrementLoginAttemptsLate(doc, t) ==
  IF doc.lockUntil # Absent /\ doc.lockUntil[1] < t
    THEN [inc |-> NoFields, set |-> [f \in {"loginAttempts"} |-> 1],
          unset |-> {"lockUntil"}]
    ELSE [inc |-> [f \in {"loginAttempts"} |-> 1],
          set |-> IF doc.loginAttempts >= LockThreshold /\ ~isLocked(doc, t)
                    THEN [f \in {"lockUntil"} |-> Some(t + LockMs)]
                    ELSE NoFields,
          unset |-> {}]

\* The update incrementLoginAttempts hands to updateOne, computed from the
\* request's own copy of the document and Date.now().
incrementLoginAttempts(doc, t) ==
  IF doc.lockUntil # Absent /\ doc.lockUntil[1] < t
    THEN [inc |-> NoFields, set |-> [f \in {"loginAttempts"} |-> 1],
          unset |-> {"lockUntil"}]
    ELSE [inc |-> [f \in {"loginAttempts"} |-> 1],
          set |-> IF doc.loginAttempts + 1 >= LockThreshold /\ ~isLocked(doc, t)
                    THEN [f \in {"lockUntil"} |-> Some(t + LockMs)]
                    ELSE NoFields,
          unset |-> {}]

hasRole(doc, role) == doc.role = role

\* hasAnyRole asking for every listed role (roles.every for roles.includes).
hasEveryRole(doc, roles) == \A role \in roles : doc.role = role

hasAnyRole(doc, roles) == doc.role \in roles

\* ------------------------------------------------------------- the store

\* Model.updateOne({_id}, update): the store applies $unset, $set and $inc
\* to the document it holds at that moment, as one atomic operation.
updateOne(stored, upd) ==
  IF stored = Null THEN Null
  ELSE [f \in DOMAIN stored |->
          IF f \in upd.unset THEN Absent
          ELSE IF f \in DOMAIN upd.set THEN upd.set[f]
          ELSE IF f \in DOMAIN upd.inc THEN stored[f] + upd.inc[f]
          ELSE stored[f]]

\* The paths Mongoose holds modified: those set to a value that differs from
\* the one the document was loaded with; every path of a new document.
modifiedPaths(orig, doc) ==
  IF orig = Null THEN DOMAIN doc ELSE {f \in DOMAIN doc : doc[f] # orig[f]}

\* A pre('save') hook that hashes the password on every save.
preSaveAlways(orig, doc) == [doc EXCEPT !.password = bcryptHash(doc.password)]

\* pre('save'): the password is hashed only when it is modified.
preSave(orig, doc) ==
  IF "password" \in modifiedPaths(orig, doc)
    THEN [doc EXCEPT !.password = bcryptHash(doc.password)]
    ELSE doc

\* document.save() of a loaded document: the hook runs, then an update of
\* the paths modified by the handler or by the hook.
saveUpdate(orig, doc) ==
  LET d == preSave(orig, doc)
      m == modifiedPaths(orig, d)
      gone == {f \in m \cap {"lastLogin", "lockUntil"} : d[f] = Absent}
  IN [inc |-> NoFields, set |-> [f \in m \ gone |-> d[f]], unset |-> gone]

\* The ids of the documents a findOne({username}) matches; the query value
\* is cast by the schema (trim).
byUsername(username) ==
  {i \in Ids : users[i] # Null /\ users[i].username = trim(username)}

\* ----------------------------------------------------------- authRoutes.js

\* jwt.sign with expiresIn: '7h'.
jwtSignHours(id, key, t) ==
  [kind |-> "jwt", id |-> id, iat |-> t \div 1000,
   exp |-> (t \div 1000) + 7 * 60 * 60, key |-> key]

\* jwt.sign({ id }, secret, { expiresIn: '7d' }): iat and exp are in seconds.
jwtSign(id, key, t) ==
  [kind |-> "jwt", id |-> id, iat |-> t \div 1000,
   exp |-> (t \div 1000) + TokenSeconds, key |-> key]

\* generateToken signing a constant identifier instead of the user's.
generateTokenFirst(id, t) == jwtSign(1, Secret, t)

generateToken(id, t) == jwtSign(id, Secret, t)

\* `!x` of a body field: missing or the empty string.
falsy(body, f) == f \notin DOMAIN body \/ body[f] = <<>>

\* A text is the sequence of its parts and stands for their concatenation:
\* a literal run of characters, the characters of a value, or one character
\* given by its code.
lit(s) == [lit |-> s]
chars(v) == [chars |-> v]
text(s) == <<lit(s)>>

\* res.status(status).json({ message }) with a text of several parts.
messageParts(status, parts) == [status |-> status, body |-> [message |-> parts]]

message(status, s) == messageParts(status, text(s))

\* The user summary register and login answer with.
summary(status, doc, id, t) ==
  [status |-> status,
   body |-> [_id |-> id, username |-> doc.username, email |-> doc.email,
             role |-> doc.role, token |-> generateToken(id, t)]]

\* loginCheck testing the lock before the active flag.
loginCheckLockFirst(body, doc, t) ==
  IF falsy(body, "username") \/ falsy(body, "password") THEN "missing"
  ELSE IF doc = Null THEN "unknown"
  ELSE IF isLocked(doc, t) THEN "locked"
  ELSE IF ~doc.isActive THEN "inactive"
  ELSE "compare"

\* POST /login up to the password comparison: what the handler decides from
\* the body and the document findOne gave it.
loginCheck(body, doc, t) ==
  IF falsy(body, "username") \/ falsy(body, "password") THEN "missing"
  ELSE IF doc = Null THEN "unknown"
  ELSE IF ~doc.isActive THEN "inactive"
  ELSE IF isLocked(doc, t) THEN "locked"
  ELSE "compare"

\* loginReject telling the client that the handle does not exist.
loginRejectLeaky(outcome) ==
  CASE outcome = "missing" -> message(400, "Username and password are required")
    [] outcome = "unknown" -> message(401, "User not found")
    [] outcome = "inactive" -> message(401, "Account is deactivated")
    [] outcome = "locked" ->
         message(423, "Account is temporarily locked due to too many failed attempts")

loginReject(outcome) ==
  CASE outcome = "missing" -> message(400, "Username and password are required")
    [] outcome = "unknown" -> message(401, "Invalid credentials")
    [] outcome = "inactive" -> message(401, "Account is deactivated")
    [] outcome = "locked" ->
         message(423, "Account is temporarily locked due to too many failed attempts")

\* The success branch: the fields the handler assigns before user.save().
loginReset(doc, t) ==
  [doc EXCEPT !.loginAttempts = 0, !.lockUntil = Absent, !.lastLogin = Some(t)]

\* A schema whose role defaults to 'moderator'.
createUserModerator(body, t) ==
  [username |-> trim(body.username), password |-> body.password,
   email |-> lowercase(body.email), role |-> "moderator", isActive |-> TRUE,
   lastLogin |-> Absent, loginAttempts |-> 0, lockUntil |-> Absent,
   createdAt |-> Some(t)]

\* The fields register validates and the document User.create builds from
\* them, with the schema's setters and defaults.
createUser(body, t) ==
  [username |-> trim(body.username), password |-> body.password,
   email |-> lowercase(body.email), role |-> "user", isActive |-> TRUE,
   lastLogin |-> Absent, loginAttempts |-> 0, lockUntil |-> Absent,
   createdAt |-> Some(t)]

\* The schema's validators, run by User.create before the insert.
schemaValid(doc, body) ==
  /\ Len(doc.username) >= 3
  /\ Len(doc.username) <= 30
  /\ Len(body.password) >= MinPassword
  /\ doc.email # <<>>

\* The ids of the documents findOne({ $or: [{ username }, { email }] })
\* matches; the query values are cast by the schema (trim, lowercase).
byUsernameOrEmail(store, username, email) ==
  {i \in Ids : store[i] # Null /\ (\/ store[i].username = trim(username)
                                     \/ store[i].email = lowercase(email))}

\* A collection without the unique indexes.
duplicateKeyNever(store, doc) == FALSE

\* The unique indexes on username and email refuse the insert of doc.
duplicateKey(store, doc) ==
  \E i \in Ids : store[i] # Null /\ (\/ store[i].username = doc.username
                                      \/ store[i].email = doc.email)

\* The character U+0060, which a string of the module cannot hold.
Backquote == [char |-> 96]

\* err.message of the ValidationError User.create throws for the username:
\* Mongoose names the path and the value after the setters.  The text is the
\* concatenation of the parts.
validationMessage(doc) ==
  IF doc.username = <<>>
    THEN <<lit("User validation failed: username: Path "), Backquote, lit("username"),
           Backquote, lit(" is required.")>>
  ELSE IF Len(doc.username) < 3
    THEN <<lit("User validation failed: username: Path "), Backquote, lit("username"),
           Backquote, lit(" ("), Backquote, chars(doc.username), Backquote,
           lit(") is shorter than the minimum allowed length (3).")>>
  ELSE <<lit("User validation failed: username: Path "), Backquote, lit("username"),
         Backquote, lit(" ("), Backquote, chars(doc.username), Backquote,
         lit(") is longer than the maximum allowed length (30).")>>

\* err.message of the duplicate key error of the insert: the namespace
\* (the database of mongo-init.js and of the README's MONGO_URI, and the
\* collection), the index that refused (username first, as the schema
\* declares it) and the value.
duplicateKeyMessage(store, doc) ==
  IF \E i \in Ids : store[i] # Null /\ store[i].username = doc.username
    THEN <<lit("E11000 duplicate key error collection: pulsevote.users index: username_1 dup key: { username: \""),
           chars(doc.username), lit("\" }")>>
    ELSE <<lit("E11000 duplicate key error collection: pulsevote.users index: email_1 dup key: { email: \""),
           chars(doc.email), lit("\" }")>>

\* registerCheck without the test of the password's length.
registerCheckAnyLength(body, found) ==
  IF falsy(body, "username") \/ falsy(body, "password") \/ falsy(body, "email")
    THEN "missing"
  ELSE IF found # Null
    THEN IF found.username = body.username THEN "username" ELSE "email"
  ELSE "create"

\* POST /register up to User.create.
registerCheck(body, found) ==
  IF falsy(body, "username") \/ falsy(body, "password") \/ falsy(body, "email")
    THEN "missing"
  ELSE IF Len(body.password) < MinPassword THEN "short"
  ELSE IF found # Null
    THEN IF found.username = body.username THEN "username" ELSE "email"
  ELSE "create"

registerReject(outcome) ==
  CASE outcome = "missing" -> message(400, "Username, password, and email are required")
    [] outcome = "short" -> message(400, "Password must be at least 6 characters")
    [] outcome = "username" -> message(400, "Username already exists")
    [] outcome = "email" -> message(400, "Email already exists")

\* GET /profile: the fields of req.user the handler answers with.
profileBody(user, id) ==
  [_id |-> id, username |-> user.username, email |-> user.email,
   role |-> user.role, isActive |-> user.isActive, lastLogin |-> user.lastLogin,
   createdAt |-> user.createdAt]

\* -------------------------------------------------------- authMiddleware.js

NoToken == [kind |-> "none"]
EmptyToken == [kind |-> "empty"]
TextToken == [kind |-> "text"]

\* req.headers.authorization?.split(' ')[1], with `!token` folded in: the
\* header is held as its space-separated parts; the empty string is falsy.
bearerToken(headers) ==
  IF "authorization" \notin DOMAIN headers THEN NoToken
  ELSE IF Len(headers.authorization) < 2 THEN NoToken
  ELSE IF headers.authorization[2] = EmptyToken THEN NoToken
  ELSE headers.authorization[2]

\* jwt.verify trusting the payload without checking the signature (a decode).
jwtDecode(token, key, t) ==
  IF token.kind # "jwt" THEN [ok |-> FALSE, name |-> "JsonWebTokenError"]
  ELSE IF t \div 1000 >= token.exp THEN [ok |-> FALSE, name |-> "TokenExpiredError"]
  ELSE [ok |-> TRUE, id |-> token.id]

\* jwt.verify(token, secret): the structure, then the signature, then exp
\* against the clock in whole seconds.
jwtVerify(token, key, t) ==
  IF token.kind # "jwt" THEN [ok |-> FALSE, name |-> "JsonWebTokenError"]
  ELSE IF token.key # key THEN [ok |-> FALSE, name |-> "JsonWebTokenError"]
  ELSE IF t \div 1000 >= token.exp THEN [ok |-> FALSE, name |-> "TokenExpiredError"]
  ELSE [ok |-> TRUE, id |-> token.id]

\* findById without the select('-password').
findByIdWhole(store, id) ==
  IF id \notin Ids \/ store[id] = Null THEN Null ELSE store[id]

\* User.findById(id).select('-password')
findByIdSelect(store, id) ==
  IF id \notin Ids \/ store[id] = Null THEN Null
  ELSE [f \in DOMAIN store[id] \ {"password"} |-> store[id][f]]

deny(status, s) ==
  [next |-> FALSE, user |-> Null, uid |-> 0, resp |-> message(status, s)]

\* protect up to the await of the user, lines 22-33: the token of the
\* header and jwt.verify against the clock t; the catch block names an
\* expired token, and answers any other error as an invalid token.
protectToken(headers, t) ==
  LET token == bearerToken(headers) IN
  IF token = NoToken THEN deny(401, "Not authorized, no token")
  ELSE LET decoded == jwtVerify(token, Secret, t) IN
    IF ~decoded.ok
      THEN IF decoded.name = "TokenExpiredError"
             THEN deny(401, "Token expired")
             ELSE deny(401, "Token invalid")
    ELSE [next |-> TRUE, user |-> Null, uid |-> decoded.id, resp |-> Null]

\* protect testing the lock before the active flag.
protectLockFirst(headers, store, t0, t) ==
  LET v == protectToken(headers, t0) IN
  IF ~v.next THEN v
  ELSE LET user == findByIdSelect(store, v.uid) IN
    IF user = Null THEN deny(401, "User not found")
    ELSE IF isLocked(user, t) THEN deny(423, "Account is temporarily locked")
    ELSE IF ~user.isActive THEN deny(401, "Account is deactivated")
    ELSE [next |-> TRUE, user |-> user, uid |-> v.uid, resp |-> Null]

\* protect: what it answers, whether it calls next(), and the req.user it
\* attaches.  The token is verified when the request arrives (clock t0);
\* the user is read and the lock tested when findById has resolved (store
\* and clock t of that instant).
protect(headers, store, t0, t) ==
  LET v == protectToken(headers, t0) IN
  IF ~v.next THEN v
  ELSE LET user == findByIdSelect(store, v.uid) IN
    IF user = Null THEN deny(401, "User not found")
    ELSE IF ~user.isActive THEN deny(401, "Account is deactivated")
    ELSE IF isLocked(user, t) THEN deny(423, "Account is temporarily locked")
    ELSE [next |-> TRUE, user |-> user, uid |-> v.uid, resp |-> Null]

\* authorize(...roles): the middleware it returns, applied to req.user.
authorize(roles, reqUser) ==
  IF reqUser = Null THEN [next |-> FALSE, resp |-> message(401, "Not authorized")]
  ELSE IF ~hasAnyRole(reqUser, roles)
    THEN [next |-> FALSE,
          resp |-> message(403, "Access denied. Insufficient permissions.")]
  ELSE [next |-> TRUE, resp |-> Null]

requireAdmin(reqUser) == authorize({"admin"}, reqUser)
requireModerator(reqUser) == authorize({"moderator", "admin"}, reqUser)
requireUser(reqUser) == authorize({"user", "moderator", "admin"}, reqUser)

\* ------------------------------------------------------------ pollRoutes.js

\* Poll.create({ question, options: options.map(opt => ({ text: opt })),
\* createdBy }): votes default to 0.
createPoll(body, id) ==
  [question |-> body.question,
   options |-> [i \in 1..Len(body.options) |-> [text |-> body.options[i], votes |-> 0]],
   createdBy |-> id]

\* A JSON number that is a multiple of one half, held as twice its value.
number(twice) == [type |-> "number", twice |-> twice]

\* A JSON string in the place of a number.
TextValue == [type |-> "string"]

\* The :id of a poll route: the ObjectId of the n-th poll created, or a
\* string that is not an ObjectId.
oid(n) == [kind |-> "oid", n |-> n]
TextId == [kind |-> "text", value |-> "abc"]

\* err.message of the CastError: Mongoose names the value sent.
castErrorMessage(id) ==
  <<lit("Cast to ObjectId failed for value \""), lit(id.value),
    lit("\" (type string) at path \"_id\" for model \"Poll\"")>>

\* Poll.findById(req.params.id): the cast of an id that is no ObjectId
\* throws a CastError; an ObjectId of no poll gives null.
findPollById(store, id) ==
  IF id.kind # "oid" THEN [threw |-> TRUE, poll |-> Null, n |-> 0]
  ELSE IF id.n \in 1..Len(store) THEN [threw |-> FALSE, poll |-> store[id.n], n |-> id.n]
  ELSE [threw |-> FALSE, poll |-> Null, n |-> 0]

\* voteCheck without the upper bound on the index.
voteCheckOpen(body, poll) ==
  IF poll = Null THEN "unknown"
  ELSE IF "optionIndex" \notin DOMAIN body THEN "invalid"
  ELSE IF body.optionIndex.type # "number" THEN "invalid"
  ELSE IF body.optionIndex.twice < 0 THEN "invalid"
  ELSE IF body.optionIndex.twice % 2 # 0
            \/ body.optionIndex.twice >= 2 * Len(poll.options) THEN "undefined"
  ELSE "vote"

\* POST /:id/vote between findById and save: the 404, the 400 of the index
\* test, and poll.options[optionIndex], which is undefined for an index that
\* is not a whole number.
voteCheck(body, poll) ==
  IF poll = Null THEN "unknown"
  ELSE IF "optionIndex" \notin DOMAIN body THEN "invalid"
  ELSE IF body.optionIndex.type # "number" THEN "invalid"
  ELSE IF body.optionIndex.twice < 0 THEN "invalid"
  ELSE IF body.optionIndex.twice >= 2 * Len(poll.options) THEN "invalid"
  ELSE IF body.optionIndex.twice % 2 # 0 THEN "undefined"
  ELSE "vote"

\* The increment counting a vote twice.
voteAddTwice(poll, body) ==
  LET i == (body.optionIndex.twice \div 2) + 1
  IN [poll EXCEPT !.options[i].votes = @ + 2]

\* poll.options[optionIndex].votes += 1 on the loaded document; options are
\* numbered from 1 here, from 0 in the request.
voteAdd(poll, body) ==
  LET i == (body.optionIndex.twice \div 2) + 1
  IN [poll EXCEPT !.options[i].votes = @ + 1]

\* poll.save() of a loaded poll: a $set of the one modified path,
\* options.<i>.votes, to the value the copy holds.  The filter carries the
\* version the copy was loaded with, which no route of the program changes.
pollSave(stored, doc, body) ==
  LET i == (body.optionIndex.twice \div 2) + 1
  IN [stored EXCEPT !.options[i].votes = doc.options[i].votes]

\* -------------------------------------------------------------- server.js

\* The clients of the server, by the IP address the limiters key on.
IPs == {1, 2}

WindowMs == 15 * 60 * 1000
GeneralMax == 100
AuthMax == 5

\* A limiter's entry for a client it has not yet seen.
NoHit == [totalHits |-> 0, resetTime |-> 0, handled |-> 0]
NoHits == [ip \in IPs |-> [general |-> NoHit, auth |-> NoHit]]

\* A limiter that counts and lets every request through.
rateLimitOpen(max, entry, t) ==
  LET e == IF t >= entry.resetTime
             THEN [NoHit EXCEPT !.totalHits = 1, !.resetTime = t + WindowMs]
             ELSE [entry EXCEPT !.totalHits = @ + 1]
  IN [entry |-> e, next |-> TRUE]

\* rateLimit({ windowMs, max }): the store's increment for the client's key,
\* a new window opening at the first request after the last one ended, and
\* next() only while the hits of the window do not exceed max.
rateLimit(max, entry, t) ==
  LET e == IF t >= entry.resetTime
             THEN [NoHit EXCEPT !.totalHits = 1, !.resetTime = t + WindowMs]
             ELSE [entry EXCEPT !.totalHits = @ + 1]
  IN [entry |-> e, next |-> e.totalHits <= max]

tooMany(s) == [status |-> 429, body |-> [text |-> text(s)]]

\* The middleware before the routes, lines 96-114: the general limiter on
\* every path, then the authentication limiter on /api/auth.  handled counts
\* the requests of the window that went on to a route.
limiters(store, ip, path, t) ==
  LET g == rateLimit(GeneralMax, store[ip].general, t)
      a == rateLimit(AuthMax, store[ip].auth, t)
      authPath == path = "/api/auth"
      next == g.next /\ (authPath => a.next)
      ge == IF next THEN [g.entry EXCEPT !.handled = @ + 1] ELSE g.entry
      ae == IF ~(g.next /\ authPath) THEN store[ip].auth
            ELSE IF next THEN [a.entry EXCEPT !.handled = @ + 1] ELSE a.entry
  IN [store |-> [store EXCEPT ![ip] = [general |-> ge, auth |-> ae]],
      next |-> next,
      resp |-> IF ~g.next
                 THEN tooMany("Too many requests from this IP, please try again later.")
                 ELSE tooMany("Too many authentication attempts, please try again later.")]

\* ------------------------------------------------------------------ state

Idle ==
  [pc |-> "idle", op |-> "none", body |-> NoFields, uid |-> 0, copy |-> Null,
   compared |-> FALSE, at |-> 0, checked |-> 0, stamp |-> 0, end |-> 0,
   resp |-> Null, post |-> Null,
   headers |-> NoFields, user |-> Null, called |-> FALSE, roles |-> {},
   params |-> NoFields]

free(r) == reqs[r].pc \in {"idle", "done"}

newUser(username, password, email, role, active, attempts, lock) ==
  [username |-> username, password |-> bcryptHash(password), email |-> email,
   role |-> role, isActive |-> active, lastLogin |-> Some(0),
   loginAttempts |-> attempts, lockUntil |-> lock, createdAt |-> Some(0)]

\* The failures in a row behind a seeded document are those its counter shows.
histOf(store) ==
  [i \in Ids |-> [fails |-> IF store[i] = Null THEN 0 ELSE store[i].loginAttempts,
                  at |-> 0]]

\* Alice registered at time 0.  Her account may since have been locked by
\* five failures at that instant, and may have been deactivated in the store.
Init ==
  /\ users \in {[i \in Ids |-> IF i = 1 THEN d ELSE Null] :
                  d \in {newUser(Alice, Secret1, AliceMail, "user", a, l[1], l[2]) :
                          a \in BOOLEAN,
                          l \in {<<0, Absent>>, <<LockThreshold, Some(LockMs)>>}}}
  /\ now = 0
  /\ ticks = 0
  /\ reqs = [r \in Reqs |-> Idle]
  /\ hist = histOf(users)
  /\ hits = NoHits
  /\ polls = <<>>

\* ---------------------------------------------------------------- actions

\* Each handler runs as the code between its awaits: a step when the request
\* arrives, and a step each time an awaited operation resolves.  A store
\* operation is applied at the step that resumes the handler; a step reads
\* the clock as `now`.

\* POST /login, lines 151-157: the request arrives; validation.
LoginStart(r, body) ==
  /\ free(r)
  /\ LET base == [Idle EXCEPT !.op = "login", !.body = body, !.at = now]
     IN reqs' = [reqs EXCEPT ![r] =
                   IF loginCheck(body, Null, now) = "missing"
                     THEN [base EXCEPT !.pc = "done", !.end = now,
                                       !.resp = loginReject("missing")]
                     ELSE [base EXCEPT !.pc = "find"]]
  /\ UNCHANGED <<users, now, ticks, hist, polls>>

\* POST /login, lines 159-178: findOne has resolved; the checks before the
\* password comparison.
LoginFound(r) ==
  /\ reqs[r].pc = "find"
  /\ reqs[r].op = "login"
  /\ LET q == reqs[r]
         found == byUsername(q.body.username)
         uid == IF found = {} THEN 0 ELSE CHOOSE i \in found : TRUE
         doc == IF uid = 0 THEN Null ELSE users[uid]
         outcome == loginCheck(q.body, doc, now)
         base == [q EXCEPT !.uid = uid, !.copy = doc, !.checked = now]
     IN reqs' = [reqs EXCEPT ![r] =
                   IF outcome = "compare"
                     THEN [base EXCEPT !.pc = "compare"]
                     ELSE [base EXCEPT !.pc = "done", !.end = now,
                                       !.resp = loginReject(outcome), !.post = doc]]
  /\ UNCHANGED <<users, now, ticks, hist, polls>>

\* POST /login, lines 178-185 and 202-203: the comparison has resolved; the
\* handler reads the clock for the fields it assigns (lastLogin on success,
\* the lock expiry on failure) and sends its write.
LoginCompared(r) ==
  /\ reqs[r].pc = "compare"
  /\ reqs[r].op = "login"
  /\ reqs' = [reqs EXCEPT ![r] =
                [reqs[r] EXCEPT !.pc = "write", !.compared = TRUE, !.stamp = now]]
  /\ UNCHANGED <<users, now, ticks, hist, polls>>

\* POST /login, lines 186-206: the write (the save of the reset, or the
\* updateOne of the increment) has been applied; the answer, whose token is
\* signed at this instant.
LoginFinish(r) ==
  /\ reqs[r].pc = "write"
  /\ reqs[r].op = "login"
  /\ LET q == reqs[r]
         isMatch == matchPassword(q.copy, q.body.password)
         user == loginReset(q.copy, q.stamp)
         upd == IF isMatch THEN saveUpdate(q.copy, user)
                ELSE incrementLoginAttempts(q.copy, q.stamp)
         stored == updateOne(users[q.uid], upd)
     IN /\ users' = [users EXCEPT ![q.uid] = stored]
        /\ reqs' = [reqs EXCEPT ![r] =
                      [q EXCEPT !.pc = "done", !.end = now, !.post = stored,
                                !.resp = IF isMatch
                                           THEN summary(200, user, q.uid, now)
                                           ELSE message(401, "Invalid credentials")]]
        /\ hist' = [hist EXCEPT ![q.uid] =
                      IF isMatch THEN [fails |-> 0, at |-> q.stamp]
                      ELSE [fails |-> @.fails + 1, at |-> q.stamp]]
  /\ UNCHANGED <<now, ticks, polls>>

RegisterBodies ==
  {[username |-> u, password |-> Secret1, email |-> e] :
     u \in {Alice, Bob}, e \in {AliceMail, BobMail}}
    \cup {[username |-> Bob, password |-> <<"1", "2", "3">>, email |-> BobMail],
          [username |-> Bob, password |-> Secret1]}

\* POST /register, lines 73-83: the request arrives; validation.
RegisterStart(r, body) ==
  /\ free(r)
  /\ \E i \in Ids : users[i] = Null
  /\ LET outcome == registerCheck(body, Null)
         base == [Idle EXCEPT !.op = "register", !.body = body, !.at = now]
     IN reqs' = [reqs EXCEPT ![r] =
                   IF outcome = "create"
                     THEN [base EXCEPT !.pc = "find"]
                     ELSE [base EXCEPT !.pc = "done", !.end = now,
                                       !.resp = registerReject(outcome)]]
  /\ UNCHANGED <<users, now, ticks, hist, polls>>

\* POST /register, lines 85-95: findOne has resolved (it gives the first
\* matching document in the collection's order).  User.create builds the
\* document, createdAt being the clock of this instant, and validates it; an
\* error of the schema is caught and answered 500 with the error's message.
RegisterFound(r) ==
  /\ reqs[r].pc = "find"
  /\ reqs[r].op = "register"
  /\ LET q == reqs[r]
         match == byUsernameOrEmail(users, q.body.username, q.body.email)
         found == IF match = {} THEN Null
                  ELSE users[CHOOSE i \in match : \A j \in match : i <= j]
         outcome == registerCheck(q.body, found)
         doc == createUser(q.body, now)
         base == [q EXCEPT !.copy = found, !.checked = now]
     IN reqs' = [reqs EXCEPT ![r] =
                   IF outcome # "create"
                     THEN [base EXCEPT !.pc = "done", !.end = now,
                                       !.resp = registerReject(outcome)]
                   ELSE IF ~schemaValid(doc, q.body)
                     THEN [base EXCEPT !.pc = "done", !.end = now,
                                       !.resp = messageParts(500, validationMessage(doc))]
                   ELSE [base EXCEPT !.pc = "create"]]
  /\ UNCHANGED <<users, now, ticks, hist, polls>>

\* POST /register, lines 95-96: the insert of User.create has been applied;
\* an error of the unique indexes is caught and answered 500 with the
\* error's message.  The handler then reads the clock for lastLogin.
RegisterCreate(r) ==
  /\ reqs[r].pc = "create"
  /\ reqs[r].op = "register"
  /\ LET q == reqs[r]
         doc == createUser(q.body, q.checked)
         id == CHOOSE i \in Ids : users[i] = Null /\ \A j \in Ids : users[j] = Null => i <= j
         created == preSave(Null, doc)
     IN IF duplicateKey(users, doc)
          THEN /\ reqs' = [reqs EXCEPT ![r] =
                             [q EXCEPT !.pc = "done", !.end = now,
                                       !.resp = messageParts(500, duplicateKeyMessage(users, doc))]]
               /\ UNCHANGED <<users, hist>>
        ELSE /\ users' = [users EXCEPT ![id] = created]
             /\ hist' = [hist EXCEPT ![id] = [fails |-> 0, at |-> now]]
             /\ reqs' = [reqs EXCEPT ![r] =
                           [q EXCEPT !.pc = "update", !.stamp = now, !.uid = id,
                                     !.post = created]]
  /\ UNCHANGED <<now, ticks, polls>>

\* POST /register, lines 97-109: user.save(), an update of lastLogin alone
\* on the document the store holds by then, has been applied; the answer,
\* whose token is signed at this instant.
RegisterSave(r) ==
  /\ reqs[r].pc = "update"
  /\ reqs[r].op = "register"
  /\ LET q == reqs[r]
         user == [q.post EXCEPT !.lastLogin = Some(q.stamp)]
         stored == updateOne(users[q.uid], saveUpdate(q.post, user))
     IN /\ users' = [users EXCEPT ![q.uid] = stored]
        /\ reqs' = [reqs EXCEPT ![r] =
                      [q EXCEPT !.pc = "done", !.end = now, !.post = stored,
                                !.resp = summary(201, user, q.uid, now)]]
  /\ UNCHANGED <<now, ticks, hist, polls>>

\* A request of a protected route arrives: protect takes the token from the
\* header and verifies it against the clock, lines 22-33.
arrived(op, headers, body, t) ==
  LET v == protectToken(headers, t)
      base == [Idle EXCEPT !.op = op, !.headers = headers, !.body = body, !.at = t]
  IN IF v.next THEN [base EXCEPT !.pc = "protect", !.uid = v.uid]
     ELSE [base EXCEPT !.pc = "done", !.end = t, !.resp = v.resp]

\* protect after User.findById has resolved, lines 36-56: the request with
\* the user protect attaches, and whether the handler is called.
guarded(q, store, t) ==
  LET g == protect(q.headers, store, q.at, t)
  IN [q EXCEPT !.pc = "done", !.checked = t, !.end = t, !.uid = g.uid,
               !.user = g.user, !.called = g.next, !.resp = g.resp]

\* A profile route whose guard stamps lastLogin on the user it admits.
ProfileFinishStamping(r) ==
  /\ reqs[r].pc = "protect"
  /\ reqs[r].op = "profile"
  /\ LET g == guarded(reqs[r], users, now)
     IN /\ reqs' = [reqs EXCEPT ![r] =
                      IF g.called
                        THEN [g EXCEPT !.resp = [status |-> 200,
                                                 body |-> profileBody(g.user, g.uid)]]
                        ELSE g]
        /\ users' = IF g.called
                      THEN [users EXCEPT ![g.uid].lastLogin = Some(now)]
                      ELSE users
  /\ UNCHANGED <<now, ticks, hist, polls>>

\* GET /profile arrives.
Profile(r, headers) ==
  /\ free(r)
  /\ reqs' = [reqs EXCEPT ![r] = arrived("profile", headers, NoFields, now)]
  /\ UNCHANGED <<users, now, ticks, hist, polls>>

\* GET /profile: the rest of protect, then the handler.
ProfileFinish(r) ==
  /\ reqs[r].pc = "protect"
  /\ reqs[r].op = "profile"
  /\ LET g == guarded(reqs[r], users, now)
     IN reqs' = [reqs EXCEPT ![r] =
                   IF g.called
                     THEN [g EXCEPT !.resp = [status |-> 200,
                                              body |-> profileBody(g.user, g.uid)]]
                     ELSE g]
  /\ UNCHANGED <<users, now, ticks, hist, polls>>

\* POST /logout arrives.
Logout(r, headers) ==
  /\ free(r)
  /\ reqs' = [reqs EXCEPT ![r] = arrived("logout", headers, NoFields, now)]
  /\ UNCHANGED <<users, now, ticks, hist, polls>>

\* POST /logout: the rest of protect, then the handler, which changes
\* nothing.
LogoutFinish(r) ==
  /\ reqs[r].pc = "protect"
  /\ reqs[r].op = "logout"
  /\ LET g == guarded(reqs[r], users, now)
     IN reqs' = [reqs EXCEPT ![r] =
                   IF g.called THEN [g EXCEPT !.resp = message(200, "Logged out successfully")]
                   ELSE g]
  /\ UNCHANGED <<users, now, ticks, hist, polls>>

\* POST /polls arrives.
CreatePoll(r, headers, body) ==
  /\ free(r)
  /\ Len(polls) + Cardinality({q \in Reqs : reqs[q].op = "createPoll"
                                            /\ reqs[q].pc \in {"protect", "insert"}}) < MaxPolls
  /\ reqs' = [reqs EXCEPT ![r] = arrived("createPoll", headers, body, now)]
  /\ UNCHANGED <<users, now, ticks, hist, polls>>

\* POST /polls, up to Poll.create: the rest of protect, then the arguments
\* of Poll.create; options.map of a missing options throws and is answered
\* 500 with the error's message.
CreatePollFound(r) ==
  /\ reqs[r].pc = "protect"
  /\ reqs[r].op = "createPoll"
  /\ LET g == guarded(reqs[r], users, now)
     IN reqs' = [reqs EXCEPT ![r] =
                   IF ~g.called THEN g
                   ELSE IF "options" \in DOMAIN g.body THEN [g EXCEPT !.pc = "insert"]
                   ELSE [g EXCEPT !.resp =
                           message(500, "Cannot read properties of undefined (reading 'map')")]]
  /\ UNCHANGED <<users, now, ticks, hist, polls>>

\* POST /polls, lines 91-97: the insert of Poll.create has been applied;
\* the answer.
CreatePollInsert(r) ==
  /\ reqs[r].pc = "insert"
  /\ reqs[r].op = "createPoll"
  /\ LET q == reqs[r]
         poll == createPoll(q.body, q.uid)
     IN /\ polls' = Append(polls, poll)
        /\ reqs' = [reqs EXCEPT ![r] =
                      [q EXCEPT !.pc = "done", !.end = now,
                                !.resp = [status |-> 200, body |-> poll]]]
  /\ UNCHANGED <<users, now, ticks, hist>>

VoteBodies ==
  {[optionIndex |-> v] : v \in {number(-2), number(0), number(1), number(2),
                                number(4), TextValue}}
    \cup {NoFields}

PollIds == {oid(n) : n \in 1..(MaxPolls + 1)} \cup {TextId}

\* POST /:id/vote arrives.  The route has no guard: the headers are not
\* looked at.
VoteStart(r, headers, id, body) ==
  /\ free(r)
  /\ \A n \in 1..Len(polls) : \A i \in 1..Len(polls[n].options) :
       polls[n].options[i].votes < MaxVotes
  /\ reqs' = [reqs EXCEPT ![r] =
                [Idle EXCEPT !.pc = "find", !.op = "vote", !.headers = headers,
                             !.body = body, !.params = [id |-> id], !.at = now]]
  /\ UNCHANGED <<users, now, ticks, hist, polls>>

\* POST /:id/vote, lines 142-160: findById has resolved; the tests before
\* the increment, the increment on the copy, and the save sent.
VoteFound(r) ==
  /\ reqs[r].pc = "find"
  /\ reqs[r].op = "vote"
  /\ LET q == reqs[r]
         found == findPollById(polls, q.params.id)
         outcome == IF found.threw THEN "threw" ELSE voteCheck(q.body, found.poll)
         base == [q EXCEPT !.uid = found.n, !.copy = found.poll, !.checked = now,
                           !.end = now]
     IN reqs' = [reqs EXCEPT ![r] =
                   CASE outcome = "vote" -> [base EXCEPT !.pc = "save"]
                     [] outcome = "unknown" ->
                          [base EXCEPT !.pc = "done", !.resp = message(404, "Poll not found")]
                     [] outcome = "invalid" ->
                          [base EXCEPT !.pc = "done",
                                       !.resp = message(400, "Invalid option index")]
                     [] outcome = "undefined" ->
                          [base EXCEPT !.pc = "done",
                                       !.resp = message(500, "Cannot read properties of undefined (reading 'votes')")]
                     [] outcome = "threw" ->
                          [base EXCEPT !.pc = "done",
                                       !.resp = messageParts(500, castErrorMessage(q.params.id))]]
  /\ UNCHANGED <<users, now, ticks, hist, polls>>

\* POST /:id/vote, lines 160-164: the save has been applied; the answer.
VoteFinish(r) ==
  /\ reqs[r].pc = "save"
  /\ reqs[r].op = "vote"
  /\ LET q == reqs[r]
         doc == voteAdd(q.copy, q.body)
         stored == pollSave(polls[q.uid], doc, q.body)
     IN /\ polls' = [polls EXCEPT ![q.uid] = stored]
        /\ reqs' = [reqs EXCEPT ![r] =
                      [q EXCEPT !.pc = "done", !.end = now, !.post = stored,
                                !.resp = [status |-> 200, body |-> doc]]]
  /\ UNCHANGED <<users, now, ticks, hist>>

\* populate('createdBy', 'username'): the creator's id and username, or null.
populate(store, poll) ==
  [poll EXCEPT !.createdBy =
     IF @ \in Ids /\ store[@] # Null THEN [id |-> @, username |-> store[@].username]
     ELSE Null]

\* GET /api/polls arrives; the route has no guard.
ListPolls(r) ==
  /\ free(r)
  /\ reqs' = [reqs EXCEPT ![r] = [Idle EXCEPT !.pc = "find", !.op = "polls", !.at = now]]
  /\ UNCHANGED <<users, now, ticks, hist, polls>>

\* GET /api/polls, lines 40-48 of the poll routes: the find and its
\* populate have resolved; every poll is answered.
ListPollsFinish(r) ==
  /\ reqs[r].pc = "find"
  /\ reqs[r].op = "polls"
  /\ reqs' = [reqs EXCEPT ![r] =
                [reqs[r] EXCEPT !.pc = "done", !.checked = now, !.end = now,
                                !.resp = [status |-> 200,
                                          body |-> [i \in DOMAIN polls |-> populate(users, polls[i])]]]]
  /\ UNCHANGED <<users, now, ticks, hist, polls>>

\* authorize(...roles) applied to a request that carries the user protect
\* attaches for id, or no user when id is 0.
Authorize(r, id, roles) ==
  /\ free(r)
  /\ LET reqUser == IF id = 0 THEN Null ELSE findByIdSelect(users, id)
         a == authorize(roles, reqUser)
     IN reqs' = [reqs EXCEPT ![r] =
                   [Idle EXCEPT !.pc = "done", !.op = "authorize", !.at = now,
                                !.end = now, !.uid = id, !.user = reqUser,
                                !.roles = roles, !.called = a.next, !.resp = a.resp]]
  /\ UNCHANGED <<users, now, ticks, hist, polls>>

\* Time passes between two steps.
Tick ==
  /\ ticks < MaxTicks
  /\ \E d \in {1, LockMs - 1} : now' = now + d
  /\ ticks' = ticks + 1
  /\ UNCHANGED <<users, reqs, hist, polls>>

\* The headers of a client that holds a token the server issued, or none.
ApiHeaders(t) ==
  {NoFields} \cup
  {[authorization |-> <<"Bearer", generateToken(id, t0)>>] : id \in Ids, t0 \in {0, t}}

\* Logins served one at a time, the clock advancing around the lock expiry.
Next ==
  \/ \E body \in {[username |-> u, password |-> p] : u \in {Alice, Bob}, p \in {Secret1, WrongPw}} \cup {[username |-> Alice], [username |-> Alice, password |-> <<>>]} : LoginStart(1, body) /\ UNCHANGED hits
  \/ LoginFound(1) /\ UNCHANGED hits
  \/ LoginCompared(1) /\ UNCHANGED hits
  \/ LoginFinish(1) /\ UNCHANGED hits
  \/ Tick /\ UNCHANGED hits

Spec == Init /\ [][Next]_vars

\* The authentication routes served one at a time, the clock advancing by
\* the lock duration.
TickApi ==
  /\ ticks < MaxApiTicks
  /\ now' = now + LockMs
  /\ ticks' = ticks + 1
  /\ UNCHANGED <<users, reqs, hist, polls>>

\* The role lists of requireAdmin, requireModerator and requireUser.
RequiredRoles == {{"admin"}, {"moderator", "admin"}, {"user", "moderator", "admin"}}

NextApi ==
  \/ \E body \in {[username |-> u, password |-> p] : u \in {Alice, Bob}, p \in {Secret1, WrongPw}} \cup {[username |-> Alice], [username |-> Alice, password |-> <<>>]} : LoginStart(1, body) /\ UNCHANGED hits
  \/ LoginFound(1) /\ UNCHANGED hits
  \/ LoginCompared(1) /\ UNCHANGED hits
  \/ LoginFinish(1) /\ UNCHANGED hits
  \/ \E body \in RegisterBodies : RegisterStart(1, body) /\ UNCHANGED hits
  \/ RegisterFound(1) /\ UNCHANGED hits
  \/ RegisterCreate(1) /\ UNCHANGED hits
  \/ RegisterSave(1) /\ UNCHANGED hits
  \/ \E headers \in ApiHeaders(now) : Profile(1, headers) /\ UNCHANGED hits
  \/ ProfileFinish(1) /\ UNCHANGED hits
  \/ \E headers \in ApiHeaders(now) : Logout(1, headers) /\ UNCHANGED hits
  \/ LogoutFinish(1) /\ UNCHANGED hits
  \/ \E id \in {0} \cup Ids, roles \in RequiredRoles : Authorize(1, id, roles) /\ UNCHANGED hits
  \/ TickApi /\ UNCHANGED hits

SpecApi == Init /\ [][NextApi]_vars

\* The access guard on its own: Alice's document as the store may hold it
\* (any role; deactivated, locked or both), requests with any header, and the
\* clock advancing to the lock expiry and to the token expiry.
InitGuard ==
  /\ users \in {[i \in Ids |-> IF i = 1 THEN d ELSE Null] :
                  d \in {newUser(Alice, Secret1, AliceMail, role, TRUE, 0, Absent) :
                           role \in Roles}
                        \cup {newUser(Alice, Secret1, AliceMail, "user", a,
                                      LockThreshold, Some(LockMs)) : a \in BOOLEAN}
                        \cup {newUser(Alice, Secret1, AliceMail, "user", FALSE, 0, Absent)}}
  /\ now = 0
  /\ ticks = 0
  /\ reqs = [r \in Reqs |-> Idle]
  /\ hist = histOf(users)
  /\ hits = NoHits
  /\ polls = <<>>

GuardHeaders(t) ==
  {NoFields, [authorization |-> <<"Bearer">>]} \cup
  {[authorization |-> <<"Bearer", token>>] :
     token \in {EmptyToken, TextToken} \cup
               {generateToken(id, t0) : id \in Ids, t0 \in {0, t}} \cup
               {jwtSign(id, OtherKey, t0) : id \in Ids, t0 \in {0, t}}}

\* The clock stays within two token lifetimes.
Horizon == 2 * TokenSeconds * 1000

TickGuard ==
  /\ ticks < MaxTicks
  /\ \E d \in {LockMs, TokenSeconds * 1000 - LockMs} : now + d <= Horizon /\ now' = now + d
  /\ ticks' = ticks + 1
  /\ UNCHANGED <<users, reqs, hist, polls>>

NextGuard ==
  \/ \E headers \in GuardHeaders(now) : Profile(1, headers) /\ UNCHANGED hits
  \/ ProfileFinish(1) /\ UNCHANGED hits
  \/ \E headers \in GuardHeaders(now) : Logout(1, headers) /\ UNCHANGED hits
  \/ LogoutFinish(1) /\ UNCHANGED hits
  \/ \E headers \in GuardHeaders(now), body \in {[question |-> "Q", options |-> <<"yes", "no">>], [question |-> "Q"]} : CreatePoll(1, headers, body) /\ UNCHANGED hits
  \/ CreatePollFound(1) /\ UNCHANGED hits
  \/ CreatePollInsert(1) /\ UNCHANGED hits
  \/ \E id \in {0} \cup Ids, roles \in SUBSET Roles : Authorize(1, id, roles) /\ UNCHANGED hits
  \/ TickGuard /\ UNCHANGED hits

SpecGuard == InitGuard /\ [][NextGuard]_vars

\* Requests served concurrently: MaxReqs logins for Alice, each taking its
\* steps at any moment.  Alice is active and has failed some logins before.
InitRace ==
  /\ users \in {[i \in Ids |-> IF i = 1 THEN d ELSE Null] :
                  d \in {newUser(Alice, Secret1, AliceMail, "user", TRUE, n, Absent) :
                           n \in 0..(LockThreshold - 1)}
                        \cup {newUser(Alice, Secret1, AliceMail, "user", TRUE,
                                      LockThreshold, Some(LockMs))}}
  /\ now = 0
  /\ ticks = 0
  /\ reqs = [r \in Reqs |-> Idle]
  /\ hist = histOf(users)
  /\ hits = NoHits
  /\ polls = <<>>

\* The clock advances to the expiry of a lock set at time 0, or past it.
TickRace ==
  /\ ticks < MaxRaceTicks
  /\ \E d \in {1, LockMs - 1} : now' = now + d
  /\ ticks' = ticks + 1
  /\ UNCHANGED <<users, reqs, hist, polls>>

NextRace ==
  \/ \E r \in Reqs, body \in {[username |-> Alice, password |-> p] : p \in {Secret1, WrongPw}} : reqs[r].pc = "idle" /\ LoginStart(r, body) /\ UNCHANGED hits
  \/ \E r \in Reqs : LoginFound(r) /\ UNCHANGED hits
  \/ \E r \in Reqs : LoginCompared(r) /\ UNCHANGED hits
  \/ \E r \in Reqs : LoginFinish(r) /\ UNCHANGED hits
  \/ TickRace /\ UNCHANGED hits

SpecRace == InitRace /\ [][NextRace]_vars

\* A client logs in (slot 2) and uses the token of that answer on the
\* protected routes (slot 1), while the clock runs up to the token's expiry
\* in steps that leave the whole seconds of jsonwebtoken's clock.
TickToken ==
  /\ ticks < MaxTicks
  /\ \E d \in {1500, 500, TokenSeconds * 1000 - 1000} : now + d <= Horizon /\ now' = now + d
  /\ ticks' = ticks + 1
  /\ UNCHANGED <<users, reqs, hist, polls>>

NextToken ==
  \/ \E body \in {[username |-> Alice, password |-> Secret1]} : LoginStart(2, body) /\ UNCHANGED hits
  \/ LoginFound(2) /\ UNCHANGED hits
  \/ LoginCompared(2) /\ UNCHANGED hits
  \/ LoginFinish(2) /\ UNCHANGED hits
  \/ \E headers \in (IF reqs[2].pc = "done" /\ reqs[2].op = "login" /\ reqs[2].resp.status = 200 THEN {[authorization |-> <<"Bearer", reqs[2].resp.body.token>>]} ELSE {}) : Profile(1, headers) /\ UNCHANGED hits
  \/ ProfileFinish(1) /\ UNCHANGED hits
  \/ \E headers \in (IF reqs[2].pc = "done" /\ reqs[2].op = "login" /\ reqs[2].resp.status = 200 THEN {[authorization |-> <<"Bearer", reqs[2].resp.body.token>>]} ELSE {}) : Logout(1, headers) /\ UNCHANGED hits
  \/ LogoutFinish(1) /\ UNCHANGED hits
  \/ TickToken /\ UNCHANGED hits

SpecToken == Init /\ [][NextToken]_vars

\* The poll routes served one at a time: Alice creates polls, anyone votes.
InitPoll ==
  /\ users = [i \in Ids |->
               IF i = 1 THEN newUser(Alice, Secret1, AliceMail, "user", TRUE, 0, Absent)
               ELSE Null]
  /\ now = 0
  /\ ticks = 0
  /\ reqs = [r \in Reqs |-> Idle]
  /\ hist = histOf(users)
  /\ hits = NoHits
  /\ polls = <<>>

PollHeaders == {NoFields, [authorization |-> <<"Bearer", generateToken(1, 0)>>]}

NextPoll ==
  \/ \E headers \in PollHeaders, body \in ({[question |-> "Q", options |-> o] : o \in {<<"yes", "no">>, <<>>}} \cup {[question |-> "Q"]}) : CreatePoll(1, headers, body) /\ UNCHANGED hits
  \/ CreatePollFound(1) /\ UNCHANGED hits
  \/ CreatePollInsert(1) /\ UNCHANGED hits
  \/ \E headers \in PollHeaders, id \in PollIds, body \in VoteBodies :
       VoteStart(1, headers, id, body) /\ UNCHANGED hits
  \/ VoteFound(1) /\ UNCHANGED hits
  \/ VoteFinish(1) /\ UNCHANGED hits

SpecPoll == InitPoll /\ [][NextPoll]_vars

\* The catch block of a route handler: res.status(500).json({ message:
\* err.message }).
routeCatch(err) == message(500, err.message)

\* The catch block of protect: an error that is no TokenExpiredError is
\* answered as an invalid token.
protectCatch(err) ==
  IF err.name = "TokenExpiredError" THEN deny(401, "Token expired")
  ELSE deny(401, "Token invalid")

\* The store operation a request awaits rejects with err.  The findById of
\* protect is inside protect's try block; every other operation (the
\* findOne of register and login, the find of the poll list, the findById
\* of a vote, and the writes: create and save of a registration, save and
\* updateOne of a login, Poll.create, the save of a vote) is inside the
\* handler's.  What the request wrote before stays written.
StoreFails(r, err) ==
  /\ reqs[r].pc \in {"find", "protect", "create", "update", "write", "insert", "save"}
  /\ LET q == reqs[r]
     IN reqs' = [reqs EXCEPT ![r] =
                   [q EXCEPT !.pc = "done", !.end = now,
                             !.params = [f \in DOMAIN q.params \cup {"error", "awaited"} |->
                                           IF f = "error" THEN err
                                           ELSE IF f = "awaited" THEN q.pc
                                           ELSE q.params[f]],
                             !.resp = IF q.pc = "protect" THEN protectCatch(err).resp
                                      ELSE routeCatch(err)]]
  /\ UNCHANGED <<users, now, ticks, hist, polls>>

\* Requests served one at a time by a store that may reject any operation
\* a request awaits, beside the clock.
NextFail ==
  \/ \E body \in {[username |-> Alice, password |-> p] : p \in {Secret1, WrongPw}} : LoginStart(1, body) /\ UNCHANGED hits
  \/ LoginFound(1) /\ UNCHANGED hits
  \/ LoginCompared(1) /\ UNCHANGED hits
  \/ LoginFinish(1) /\ UNCHANGED hits
  \/ \E body \in {[username |-> Bob, password |-> Secret1, email |-> BobMail]} : RegisterStart(1, body) /\ UNCHANGED hits
  \/ RegisterFound(1) /\ UNCHANGED hits
  \/ RegisterCreate(1) /\ UNCHANGED hits
  \/ RegisterSave(1) /\ UNCHANGED hits
  \/ \E headers \in PollHeaders : Profile(1, headers) /\ UNCHANGED hits
  \/ ProfileFinish(1) /\ UNCHANGED hits
  \/ \E headers \in PollHeaders : Logout(1, headers) /\ UNCHANGED hits
  \/ LogoutFinish(1) /\ UNCHANGED hits
  \/ ListPolls(1) /\ UNCHANGED hits
  \/ ListPollsFinish(1) /\ UNCHANGED hits
  \/ \E headers \in PollHeaders : CreatePoll(1, headers, [question |-> "Q", options |-> <<"yes", "no">>]) /\ UNCHANGED hits
  \/ CreatePollFound(1) /\ UNCHANGED hits
  \/ CreatePollInsert(1) /\ UNCHANGED hits
  \/ VoteStart(1, NoFields, oid(1), [optionIndex |-> number(0)]) /\ UNCHANGED hits
  \/ VoteFound(1) /\ UNCHANGED hits
  \/ VoteFinish(1) /\ UNCHANGED hits
  \/ \E err \in {[name |-> "MongoNetworkError", message |-> "connect ECONNREFUSED 10.0.0.5:27017"], [name |-> "MongoServerSelectionError", message |-> "Server selection timed out"]} : StoreFails(1, err) /\ UNCHANGED hits
  \/ TickApi /\ UNCHANGED hits

SpecFail == InitPoll /\ [][NextFail]_vars

\* Register requests served concurrently on an empty collection: each
\* request is a slot that takes its steps at any moment.
InitRegisterRace ==
  /\ users = [i \in Ids |-> Null]
  /\ now = 0
  /\ ticks = 0
  /\ reqs = [r \in Reqs |-> Idle]
  /\ hist = histOf(users)
  /\ hits = NoHits
  /\ polls = <<>>

NextRegisterRace ==
  \/ \E r \in Reqs, body \in {[username |-> u, password |-> Secret1, email |-> e] : u \in {Alice, Bob}, e \in {AliceMail, BobMail, <<"b", "@", "x">>}} : reqs[r].pc = "idle" /\ RegisterStart(r, body) /\ UNCHANGED hits
  \/ \E r \in Reqs : RegisterFound(r) /\ UNCHANGED hits
  \/ \E r \in Reqs : RegisterCreate(r) /\ UNCHANGED hits
  \/ \E r \in Reqs : RegisterSave(r) /\ UNCHANGED hits

SpecRegisterRace == InitRegisterRace /\ [][NextRegisterRace]_vars

\* The routes given bodies the schema or the handler cannot take: a handle
\* of 2 or of 31 characters, a poll without options, an index of one half.
NextMalformed ==
  \/ \E body \in {[username |-> u, password |-> Secret1, email |-> BobMail] : u \in {<<"b", "o">>, [i \in 1..31 |-> "a"], Bob}} : RegisterStart(1, body) /\ UNCHANGED hits
  \/ RegisterFound(1) /\ UNCHANGED hits
  \/ RegisterCreate(1) /\ UNCHANGED hits
  \/ RegisterSave(1) /\ UNCHANGED hits
  \/ \E headers \in PollHeaders, body \in ({[question |-> "Q", options |-> o] : o \in {<<"yes", "no">>, <<>>}} \cup {[question |-> "Q"]}) : CreatePoll(1, headers, body) /\ UNCHANGED hits
  \/ CreatePollFound(1) /\ UNCHANGED hits
  \/ CreatePollInsert(1) /\ UNCHANGED hits
  \/ \E headers \in PollHeaders, id \in PollIds, body \in VoteBodies :
       VoteStart(1, headers, id, body) /\ UNCHANGED hits
  \/ VoteFound(1) /\ UNCHANGED hits
  \/ VoteFinish(1) /\ UNCHANGED hits

SpecMalformed == InitPoll /\ [][NextMalformed]_vars

\* The server as server.js mounts it: every request passes the limiters
\* before its route.

\* How far past its limit a client's counter is followed.
MaxOver == 1

withinReach(store, ip) ==
  /\ store[ip].general.totalHits <= GeneralMax + MaxOver
  /\ store[ip].auth.totalHits <= AuthMax + MaxOver

\* Requests other than GET /api/polls are followed among the first
\* MaxVaried requests of a window and from the last one the general limiter
\* lets through onwards; between the two the client only lists the polls.
MaxVaried == 6

followed(store, ip) ==
  /\ withinReach(store, ip)
  /\ \/ store[ip].general.totalHits <= MaxVaried
     \/ store[ip].general.totalHits >= GeneralMax

\* A request a limiter answered: no route ran.
refused(op, body, resp, t) ==
  [Idle EXCEPT !.pc = "done", !.op = op, !.body = body, !.at = t, !.end = t,
               !.resp = resp]

ServerRegister(ip, r, body) ==
  LET m == limiters(hits, ip, "/api/auth", now)
  IN /\ hits' = m.store
     /\ IF m.next THEN RegisterStart(r, body)
        ELSE /\ free(r)
             /\ reqs' = [reqs EXCEPT ![r] = refused("register", body, m.resp, now)]
             /\ UNCHANGED <<users, now, ticks, hist, polls>>

ServerLogin(ip, r, body) ==
  LET m == limiters(hits, ip, "/api/auth", now)
  IN /\ hits' = m.store
     /\ IF m.next THEN LoginStart(r, body)
        ELSE /\ free(r)
             /\ reqs' = [reqs EXCEPT ![r] = refused("login", body, m.resp, now)]
             /\ UNCHANGED <<users, now, ticks, hist, polls>>

ServerListPolls(ip, r) ==
  LET m == limiters(hits, ip, "/api/polls", now)
  IN /\ hits' = m.store
     /\ IF m.next THEN ListPolls(r)
        ELSE /\ free(r)
             /\ reqs' = [reqs EXCEPT ![r] = refused("polls", NoFields, m.resp, now)]
             /\ UNCHANGED <<users, now, ticks, hist, polls>>

ServerProfile(ip, r, headers) ==
  LET m == limiters(hits, ip, "/api/auth", now)
  IN /\ hits' = m.store
     /\ IF m.next THEN Profile(r, headers)
        ELSE /\ free(r)
             /\ reqs' = [reqs EXCEPT ![r] =
                           [refused("profile", NoFields, m.resp, now) EXCEPT !.headers = headers]]
             /\ UNCHANGED <<users, now, ticks, hist, polls>>

ServerLogout(ip, r, headers) ==
  LET m == limiters(hits, ip, "/api/auth", now)
  IN /\ hits' = m.store
     /\ IF m.next THEN Logout(r, headers)
        ELSE /\ free(r)
             /\ reqs' = [reqs EXCEPT ![r] =
                           [refused("logout", NoFields, m.resp, now) EXCEPT !.headers = headers]]
             /\ UNCHANGED <<users, now, ticks, hist, polls>>

ServerCreatePoll(ip, r, headers, body) ==
  LET m == limiters(hits, ip, "/api/polls", now)
  IN /\ hits' = m.store
     /\ IF m.next THEN CreatePoll(r, headers, body)
        ELSE /\ free(r)
             /\ reqs' = [reqs EXCEPT ![r] =
                           [refused("createPoll", body, m.resp, now) EXCEPT !.headers = headers]]
             /\ UNCHANGED <<users, now, ticks, hist, polls>>

ServerVote(ip, r, id, body) ==
  LET m == limiters(hits, ip, "/api/polls", now)
  IN /\ hits' = m.store
     /\ IF m.next THEN VoteStart(r, NoFields, id, body)
        ELSE /\ free(r)
             /\ reqs' = [reqs EXCEPT ![r] =
                           [refused("vote", body, m.resp, now) EXCEPT !.params = [id |-> id]]]
             /\ UNCHANGED <<users, now, ticks, hist, polls>>

\* GET / (line 130) and the pages of /api-docs (swagger.js): answered
\* without the store.
Static(r, path) ==
  /\ free(r)
  /\ reqs' = [reqs EXCEPT ![r] =
                [Idle EXCEPT !.pc = "done", !.op = "static", !.at = now, !.end = now,
                             !.params = [path |-> path],
                             !.resp = [status |-> 200,
                                       body |-> IF path = "/"
                                                  THEN [text |-> <<lit("PulseVote backend API running securely "),
                                                                   [char |-> 9989]>>]
                                                  ELSE [page |-> "swagger-ui"]]]]
  /\ UNCHANGED <<users, now, ticks, hist, polls>>

ServerStatic(ip, r, path) ==
  LET m == limiters(hits, ip, path, now)
  IN /\ hits' = m.store
     /\ IF m.next THEN Static(r, path)
        ELSE /\ free(r)
             /\ reqs' = [reqs EXCEPT ![r] =
                           [refused("static", NoFields, m.resp, now) EXCEPT
                              !.params = [path |-> path]]]
             /\ UNCHANGED <<users, now, ticks, hist, polls>>

\* A rate-limit window passes.
TickServer ==
  /\ ticks < MaxApiTicks
  /\ now' = now + WindowMs
  /\ ticks' = ticks + 1
  /\ UNCHANGED <<users, reqs, hist, polls, hits>>

InitServer ==
  /\ users = [i \in Ids |-> IF i = 1
                              THEN newUser(Alice, Secret1, AliceMail, "user", TRUE, 0, Absent)
                              ELSE Null]
  /\ now = 0
  /\ ticks = 0
  /\ reqs = [r \in Reqs |-> Idle]
  /\ hist = histOf(users)
  /\ hits = NoHits
  /\ polls = <<>>

\* One client, sending Alice's token or no header, its requests served one
\* at a time.
NextServer ==
  \/ \E body \in {[username |-> Alice, password |-> p] : p \in {Secret1, WrongPw}} : ServerLogin(1, 1, body) /\ followed(hits', 1)
  \/ LoginFound(1) /\ UNCHANGED hits
  \/ LoginCompared(1) /\ UNCHANGED hits
  \/ LoginFinish(1) /\ UNCHANGED hits
  \/ \E body \in {[username |-> Bob, password |-> Secret1, email |-> BobMail]} : ServerRegister(1, 1, body) /\ followed(hits', 1)
  \/ RegisterFound(1) /\ UNCHANGED hits
  \/ RegisterCreate(1) /\ UNCHANGED hits
  \/ RegisterSave(1) /\ UNCHANGED hits
  \/ \E headers \in ({NoFields, [authorization |-> <<"Bearer", generateToken(1, 0)>>]}) : ServerProfile(1, 1, headers) /\ followed(hits', 1)
  \/ ProfileFinish(1) /\ UNCHANGED hits
  \/ \E headers \in ({NoFields, [authorization |-> <<"Bearer", generateToken(1, 0)>>]}) : ServerLogout(1, 1, headers) /\ followed(hits', 1)
  \/ LogoutFinish(1) /\ UNCHANGED hits
  \/ ServerListPolls(1, 1) /\ withinReach(hits', 1)
  \/ ListPollsFinish(1) /\ UNCHANGED hits
  \/ \E headers \in ({NoFields, [authorization |-> <<"Bearer", generateToken(1, 0)>>]}), body \in {[question |-> "Q", options |-> <<"yes", "no">>]} : ServerCreatePoll(1, 1, headers, body) /\ followed(hits', 1)
  \/ CreatePollFound(1) /\ UNCHANGED hits
  \/ CreatePollInsert(1) /\ UNCHANGED hits
  \/ \E body \in {[optionIndex |-> number(0)]} : ServerVote(1, 1, oid(1), body) /\ followed(hits', 1)
  \/ VoteFound(1) /\ UNCHANGED hits
  \/ VoteFinish(1) /\ UNCHANGED hits
  \/ \E path \in {"/", "/api-docs/"} : ServerStatic(1, 1, path) /\ followed(hits', 1)
  \/ TickServer

SpecServer == InitServer /\ [][NextServer]_vars

\* Two clients, each sending the same scenario to the server at one
\* instant: a registration of its own fresh user, five logins of that user
\* with a wrong password, then one with the right password.  A client's
\* place in the scenario is the number of requests it has sent.
ScenarioSend(c) ==
  LET n == hits[c].general.totalHits
      u == IF c = 1 THEN [username |-> Alice, email |-> AliceMail]
           ELSE [username |-> Bob, email |-> BobMail]
  IN /\ n <= LockThreshold + 1
     /\ IF n = 0
          THEN ServerRegister(c, c, [username |-> u.username, password |-> Secret1,
                                     email |-> u.email])
          ELSE ServerLogin(c, c, [username |-> u.username,
                                  password |-> IF n <= LockThreshold THEN WrongPw
                                               ELSE Secret1])

NextScenario ==
  \/ \E c \in IPs : ScenarioSend(c)
  \/ \E c \in IPs : LoginFound(c) /\ UNCHANGED hits
  \/ \E c \in IPs : LoginCompared(c) /\ UNCHANGED hits
  \/ \E c \in IPs : LoginFinish(c) /\ UNCHANGED hits
  \/ \E c \in IPs : RegisterFound(c) /\ UNCHANGED hits
  \/ \E c \in IPs : RegisterCreate(c) /\ UNCHANGED hits
  \/ \E c \in IPs : RegisterSave(c) /\ UNCHANGED hits

SpecScenario == InitRegisterRace /\ [][NextScenario]_vars

\* Vote requests served concurrently on one poll that has no votes yet:
\* each request is a slot that takes its steps at any moment.
InitVoteRace ==
  /\ users = [i \in Ids |->
               IF i = 1 THEN newUser(Alice, Secret1, AliceMail, "user", TRUE, 0, Absent)
               ELSE Null]
  /\ now = 0
  /\ ticks = 0
  /\ reqs = [r \in Reqs |-> Idle]
  /\ hist = histOf(users)
  /\ hits = NoHits
  /\ polls = <<createPoll([question |-> "Q", options |-> <<"yes", "no">>], 1)>>

NextVoteRace ==
  \/ \E r \in Reqs, id \in PollIds, body \in VoteBodies : reqs[r].pc = "idle" /\ VoteStart(r, NoFields, id, body) /\ UNCHANGED hits
  \/ \E r \in Reqs : VoteFound(r) /\ UNCHANGED hits
  \/ \E r \in Reqs : VoteFinish(r) /\ UNCHANGED hits

SpecVoteRace == InitVoteRace /\ [][NextVoteRace]_vars

\* Every route of the API on a store that starts empty, requests served one
\* at a time, together with the role guards applied to the stored users.
NextRest ==
  \/ \E body \in {[username |-> u[1], password |-> Secret1, email |-> u[2]] : u \in {<<Alice, AliceMail>>, <<Bob, BobMail>>}} : RegisterStart(1, body) /\ UNCHANGED hits
  \/ RegisterFound(1) /\ UNCHANGED hits
  \/ RegisterCreate(1) /\ UNCHANGED hits
  \/ RegisterSave(1) /\ UNCHANGED hits
  \/ \E body \in {[username |-> Alice, password |-> p] : p \in {Secret1, WrongPw}} : LoginStart(1, body) /\ UNCHANGED hits
  \/ LoginFound(1) /\ UNCHANGED hits
  \/ LoginCompared(1) /\ UNCHANGED hits
  \/ LoginFinish(1) /\ UNCHANGED hits
  \/ \E headers \in ({NoFields} \cup {[authorization |-> <<"Bearer", generateToken(id, 0)>>] : id \in Ids}) : Profile(1, headers) /\ UNCHANGED hits
  \/ ProfileFinish(1) /\ UNCHANGED hits
  \/ \E headers \in ({NoFields} \cup {[authorization |-> <<"Bearer", generateToken(id, 0)>>] : id \in Ids}) : Logout(1, headers) /\ UNCHANGED hits
  \/ LogoutFinish(1) /\ UNCHANGED hits
  \/ ListPolls(1) /\ UNCHANGED hits
  \/ ListPollsFinish(1) /\ UNCHANGED hits
  \/ \E headers \in ({NoFields} \cup {[authorization |-> <<"Bearer", generateToken(id, 0)>>] : id \in Ids}), body \in ({[question |-> "Q", options |-> o] : o \in {<<"yes", "no">>, <<>>}} \cup {[question |-> "Q"]}) : CreatePoll(1, headers, body) /\ UNCHANGED hits
  \/ CreatePollFound(1) /\ UNCHANGED hits
  \/ CreatePollInsert(1) /\ UNCHANGED hits
  \/ \E id \in {oid(1)}, body \in {[optionIndex |-> number(0)], NoFields} : VoteStart(1, NoFields, id, body) /\ UNCHANGED hits
  \/ VoteFound(1) /\ UNCHANGED hits
  \/ VoteFinish(1) /\ UNCHANGED hits
  \/ \E id \in Ids, roles \in RequiredRoles : Authorize(1, id, roles) /\ UNCHANGED hits

SpecRest == InitRegisterRace /\ [][NextRest]_vars

\* The frontend's RegisterPage in front of the register route.

\* handleRegister, line 49: the body of the POST the page sends.
pageRegisterBody(username, password) == [username |-> username, password |-> password]

\* The client's localStorage after the page has handled the answer: the
\* token of a 2xx answer is stored (line 52); the response interceptor
\* removes the token on 401; any other answer ends in the alert.
localStorageAfter(storage, resp) ==
  IF resp.status \in 200..299 THEN [token |-> resp.body.token]
  ELSE IF resp.status = 401 THEN NoFields
  ELSE storage

PageRegister(r, username, password) ==
  RegisterStart(r, pageRegisterBody(username, password))

\* Registrations from the page and from clients that send the three
\* fields, two requests at a time.
NextPage ==
  \/ \E r \in Reqs, u \in {Alice, Bob}, p \in {Secret1, WrongPw, <<"1", "2", "3">>} : PageRegister(r, u, p) /\ UNCHANGED hits
  \/ \E r \in Reqs, body \in RegisterBodies : RegisterStart(r, body) /\ UNCHANGED hits
  \/ \E r \in Reqs : RegisterFound(r) /\ UNCHANGED hits
  \/ \E r \in Reqs : RegisterCreate(r) /\ UNCHANGED hits
  \/ \E r \in Reqs : RegisterSave(r) /\ UNCHANGED hits

SpecPage == InitRegisterRace /\ [][NextPage]_vars

\* Registrations and logins of one new user served concurrently on an empty
\* collection, each request a slot: a login may read and write the user
\* between the two writes of the registration.
NextSignUp ==
  \/ \E r \in Reqs, body \in {[username |-> Bob, password |-> Secret1, email |-> BobMail]} : reqs[r].pc = "idle" /\ RegisterStart(r, body) /\ UNCHANGED hits
  \/ \E r \in Reqs : RegisterFound(r) /\ UNCHANGED hits
  \/ \E r \in Reqs : RegisterCreate(r) /\ UNCHANGED hits
  \/ \E r \in Reqs : RegisterSave(r) /\ UNCHANGED hits
  \/ \E r \in Reqs, body \in {[username |-> Bob, password |-> p] : p \in {Secret1, WrongPw}} : reqs[r].pc = "idle" /\ LoginStart(r, body) /\ UNCHANGED hits
  \/ \E r \in Reqs : LoginFound(r) /\ UNCHANGED hits
  \/ \E r \in Reqs : LoginCompared(r) /\ UNCHANGED hits
  \/ \E r \in Reqs : LoginFinish(r) /\ UNCHANGED hits
  \/ TickApi /\ UNCHANGED hits

SpecSignUp == InitRegisterRace /\ [][NextSignUp]_vars

\* ================================================================ claims

\* A login request that carried both credentials and whose findOne has
\* resolved, so that its checks have been made (at the instant q.checked).
loginOf(q) ==
  /\ q.op = "login"
  /\ q.pc \in {"compare", "write", "done"}
  /\ ~falsy(q.body, "username")
  /\ ~falsy(q.body, "password")

\* C1: with logins served one after another, once an active user has failed
\* five password checks in a row from counter 0, the stored lock expiry is
\* the time of the fifth failure (the instant its handler read the clock for
\* the expiry) plus two hours, and every login for that user whose lock check
\* is made before that expiry is answered 423 without a password comparison,
\* whatever password it carries.
C1_LockedAfterFiveFailures ==
  \A u \in Ids :
    (users[u] # Null /\ users[u].isActive /\ hist[u].fails = 5) =>
      /\ users[u].lockUntil = <<hist[u].at + 7200000>>
      /\ \A r \in Reqs :
           (/\ loginOf(reqs[r])
            /\ reqs[r].uid = u
            /\ ~reqs[r].compared
            /\ reqs[r].checked >= hist[u].at
            /\ reqs[r].checked < hist[u].at + 7200000)
             => reqs[r].pc = "done" /\ reqs[r].resp.status = 423

\* A lock set by five failures after time 0 turns away the correct password.
C1_Witness ==
  /\ hist[1].fails = 5
  /\ hist[1].at > 0
  /\ loginOf(reqs[1])
  /\ reqs[1].pc = "done"
  /\ reqs[1].uid = 1
  /\ reqs[1].checked > hist[1].at
  /\ reqs[1].body.password = Secret1
  /\ reqs[1].resp.status = 423

\* C2: a login that reaches the password comparison on a document whose
\* lock expiry is set and was not in the future when the lock was checked
\* resets the counter to 0 and clears the expiry on success, and on failure
\* leaves counter 1, no expiry.
C2_ExpiredLockRestartsCount ==
  \A r \in Reqs :
    (/\ loginOf(reqs[r])
     /\ reqs[r].pc = "done"
     /\ reqs[r].compared
     /\ reqs[r].copy.lockUntil # Absent
     /\ reqs[r].copy.lockUntil[1] <= reqs[r].checked)
      => /\ reqs[r].post.lockUntil = Absent
         /\ \/ reqs[r].resp.status = 200 /\ reqs[r].post.loginAttempts = 0
            \/ reqs[r].resp.status = 401 /\ reqs[r].post.loginAttempts = 1

\* C3: right after the write of a login answered 200, the stored document
\* has counter 0, no lock expiry and, as last login, the instant the handler
\* read the clock after the comparison.
C3_SuccessResetsStoredRecord ==
  \A r \in Reqs :
    (loginOf(reqs[r]) /\ reqs[r].pc = "done" /\ reqs[r].resp.status = 200)
      => /\ reqs[r].post.loginAttempts = 0
         /\ reqs[r].post.lockUntil = Absent
         /\ reqs[r].post.lastLogin = <<reqs[r].stamp>>

\* C7: a login for a handle no document has, and a login for an active,
\* unlocked user with a password that does not match, are answered with the
\* same status and body: 401, Invalid credentials.
C7_UnknownHandleLikeWrongPassword ==
  \A r \in Reqs :
    (/\ loginOf(reqs[r])
     /\ reqs[r].pc = "done"
     /\ \/ reqs[r].uid = 0
        \/ /\ reqs[r].uid # 0
           /\ reqs[r].copy.isActive
           /\ ~(reqs[r].copy.lockUntil # Absent /\ reqs[r].copy.lockUntil[1] > reqs[r].checked)
           /\ reqs[r].copy.password # bcryptHash(reqs[r].body.password))
      => reqs[r].resp = [status |-> 401, body |-> [message |-> text("Invalid credentials")]]

\* A known handle with a wrong password has been answered.
C7_Witness ==
  /\ loginOf(reqs[1])
  /\ reqs[1].pc = "done"
  /\ reqs[1].uid = 1
  /\ reqs[1].compared
  /\ reqs[1].body.password = WrongPw
  /\ reqs[1].resp.status = 401

\* C10: a login is decided by the first failing check in the order handle,
\* active flag, lock, password: an inactive account is answered "deactivated"
\* even when it is locked, a locked one 423, both without a password
\* comparison, and a login rejected before the comparison leaves the stored
\* document as it was.
C10_LoginCheckOrder ==
  \A r \in Reqs :
    (loginOf(reqs[r]) /\ reqs[r].pc = "done") =>
      /\ reqs[r].uid = 0 =>
           reqs[r].resp.status = 401 /\ ~reqs[r].compared
      /\ (reqs[r].uid # 0 /\ ~reqs[r].copy.isActive) =>
           /\ reqs[r].resp = [status |-> 401, body |-> [message |-> text("Account is deactivated")]]
           /\ ~reqs[r].compared
      /\ (/\ reqs[r].uid # 0
          /\ reqs[r].copy.isActive
          /\ reqs[r].copy.lockUntil # Absent
          /\ reqs[r].copy.lockUntil[1] > reqs[r].checked) =>
           reqs[r].resp.status = 423 /\ ~reqs[r].compared
      /\ (reqs[r].uid # 0 /\ ~reqs[r].compared) =>
           users[reqs[r].uid] = reqs[r].copy

\* An inactive, locked account was refused as deactivated.
C10_Witness ==
  /\ loginOf(reqs[1])
  /\ reqs[1].pc = "done"
  /\ reqs[1].uid = 1
  /\ ~reqs[1].copy.isActive
  /\ reqs[1].copy.lockUntil # Absent
  /\ reqs[1].copy.lockUntil[1] > reqs[1].checked
  /\ reqs[1].body.password = Secret1
  /\ reqs[1].resp.status = 401

\* A request of a route behind protect that has been answered.
guardedOf(q) == q.pc = "done" /\ q.op \in {"profile", "logout", "createPoll"}

\* The request carries a second header part that is a JWT.
carriesJwt(q) ==
  /\ "authorization" \in DOMAIN q.headers
  /\ Len(q.headers.authorization) >= 2
  /\ q.headers.authorization[2].kind = "jwt"

\* C4: protect attaches no user and does not call the handler for a token
\* signed with another key than the server's, for a token at or past its
\* expiry, or for a token whose user document has isActive false.
C4_NoAccessForForgedExpiredInactive ==
  \A r \in Reqs :
    (guardedOf(reqs[r]) /\ carriesJwt(reqs[r])) =>
      LET token == reqs[r].headers.authorization[2] IN
      (\/ token.key # "JWT_SECRET"
       \/ reqs[r].at \div 1000 >= token.exp
       \/ (users[token.id] # Null /\ ~users[token.id].isActive))
        => /\ reqs[r].user = Null
           /\ ~reqs[r].called
           /\ reqs[r].resp.status = 401

\* A token with the server's signature, not expired, for a deactivated user.
C4_Witness ==
  /\ guardedOf(reqs[1])
  /\ carriesJwt(reqs[1])
  /\ reqs[1].headers.authorization[2].key = "JWT_SECRET"
  /\ reqs[1].at \div 1000 < reqs[1].headers.authorization[2].exp
  /\ ~users[1].isActive
  /\ reqs[1].headers.authorization[2].id = 1
  /\ reqs[1].resp.status = 401

\* C5: authorize calls the handler exactly when the request carries a user
\* whose role is one of the required roles; it answers 403 when the role is
\* not among them and 401 when the request carries no user.
C5_AuthorizeIffRoleMember ==
  \A r \in Reqs :
    (reqs[r].pc = "done" /\ reqs[r].op = "authorize") =>
      /\ reqs[r].called <=>
           (reqs[r].user # Null /\ reqs[r].user.role \in reqs[r].roles)
      /\ reqs[r].user = Null => reqs[r].resp.status = 401
      /\ (reqs[r].user # Null /\ reqs[r].user.role \notin reqs[r].roles)
           => reqs[r].resp.status = 403
      /\ reqs[r].called => reqs[r].resp = Null

\* A moderator passes the guard for moderators and admins.
C5_Witness ==
  /\ reqs[1].pc = "done"
  /\ reqs[1].op = "authorize"
  /\ reqs[1].user # Null
  /\ reqs[1].user.role = "moderator"
  /\ reqs[1].roles = {"moderator", "admin"}
  /\ reqs[1].called

\* C6: a request carrying the token generateToken issued for user id,
\* arriving before the token's expiry, is not refused for its token; protect
\* looks up that id: it attaches that user's document (when it is active,
\* and unlocked at the time of the lookup) and never another user's.
C6_TokenRoundTrip ==
  \A r \in Reqs, id \in Ids : \A t0 \in {0, reqs[r].at} :
    (/\ guardedOf(reqs[r])
     /\ reqs[r].headers = [authorization |-> <<"Bearer", generateToken(id, t0)>>]
     /\ reqs[r].at \div 1000 < (t0 \div 1000) + 604800)
      => /\ reqs[r].resp.body # [message |-> text("Token invalid")]
         /\ reqs[r].resp.body # [message |-> text("Token expired")]
         /\ reqs[r].called => reqs[r].uid = id
         /\ users[id] = Null => reqs[r].resp.body = [message |-> text("User not found")]
         /\ (/\ users[id] # Null
             /\ users[id].isActive
             /\ ~(users[id].lockUntil # Absent /\ users[id].lockUntil[1] > reqs[r].checked))
              => /\ reqs[r].called
                 /\ reqs[r].user.username = users[id].username
                 /\ reqs[r].user.email = users[id].email

\* Alice's token, a week less a lock duration old, still opens her profile.
C6_Witness ==
  /\ guardedOf(reqs[1])
  /\ reqs[1].op = "profile"
  /\ reqs[1].headers = [authorization |-> <<"Bearer", generateToken(1, 0)>>]
  /\ reqs[1].at > 0
  /\ reqs[1].called
  /\ reqs[1].resp.status = 200
  /\ reqs[1].resp.body.username = Alice

\* C8: no body answered by register, login or profile has a password
\* field, and the user protect attaches to the request has none either.
C8_NoPasswordInResponses ==
  \A r \in Reqs :
    (reqs[r].pc = "done" /\ reqs[r].op \in {"register", "login", "profile"}) =>
      /\ "password" \notin DOMAIN reqs[r].resp.body
      /\ \A f \in DOMAIN reqs[r].resp.body \cap {"username", "email"} :
           /\ reqs[r].resp.body[f] # Secret1
           /\ reqs[r].resp.body[f] # WrongPw
      /\ reqs[r].user # Null => "password" \notin DOMAIN reqs[r].user

\* Bob, registered through the API, reads his profile.
C8_Witness ==
  /\ reqs[1].pc = "done"
  /\ reqs[1].op = "profile"
  /\ reqs[1].resp.status = 200
  /\ reqs[1].uid = 2
  /\ reqs[1].user # Null
  /\ users[2].password = bcryptHash(Secret1)

\* C9: protect decides by the first failing check in the order token
\* presence, signature and expiry (at the arrival of the request), user
\* lookup, active flag, lock (when the lookup has resolved); on every refusal
\* no user is attached and the handler is not called.
C9_ProtectCheckOrder ==
  \A r \in Reqs :
    guardedOf(reqs[r]) =>
      LET q == reqs[r]
          h == q.headers
          present == /\ "authorization" \in DOMAIN h
                     /\ Len(h.authorization) >= 2
                     /\ h.authorization[2].kind # "empty"
          token == h.authorization[2]
          reason ==
            IF ~present THEN message(401, "Not authorized, no token")
            ELSE IF token.kind # "jwt" \/ token.key # "JWT_SECRET"
              THEN message(401, "Token invalid")
            ELSE IF q.at \div 1000 >= token.exp THEN message(401, "Token expired")
            ELSE IF users[token.id] = Null THEN message(401, "User not found")
            ELSE IF ~users[token.id].isActive
              THEN message(401, "Account is deactivated")
            ELSE IF users[token.id].lockUntil # Absent
                      /\ users[token.id].lockUntil[1] > q.checked
              THEN message(423, "Account is temporarily locked")
            ELSE Null
      IN /\ reason # Null => q.resp = reason /\ q.user = Null /\ ~q.called
         /\ reason = Null => q.called /\ q.user # Null
         /\ ~q.called => q.resp.status \notin {200, 201}

\* An expired token naming a user that does not exist is refused as expired.
C9_Witness ==
  /\ guardedOf(reqs[1])
  /\ carriesJwt(reqs[1])
  /\ reqs[1].headers.authorization[2].key = "JWT_SECRET"
  /\ reqs[1].headers.authorization[2].id = 2
  /\ users[2] = Null
  /\ reqs[1].at \div 1000 >= reqs[1].headers.authorization[2].exp
  /\ reqs[1].resp = [status |-> 401, body |-> [message |-> text("Token expired")]]

\* C11: a step in which protect or authorize handles a request leaves the
\* users collection as it was, and a step that changes a stored user's
\* failure counter or lock expiry is the write of a login that compared the
\* password.
C11_GuardLeavesStoreAlone ==
  [][/\ \A r \in Reqs :
          (/\ reqs'[r] # reqs[r]
           /\ reqs'[r].op \in {"profile", "logout", "createPoll", "authorize"})
            => users' = users
     /\ \A u \in Ids :
          (/\ users[u] # Null
           /\ \/ users'[u].loginAttempts # users[u].loginAttempts
              \/ users'[u].lockUntil # users[u].lockUntil)
            => \E r \in Reqs : /\ reqs[r].pc = "write"
                               /\ reqs[r].op = "login"
                               /\ reqs[r].compared
                               /\ reqs'[r].pc = "done"]_vars

\* Alice, with a failed login on her record, has read her profile.
C11_Witness ==
  /\ reqs[1].pc = "done"
  /\ reqs[1].op = "profile"
  /\ reqs[1].called
  /\ users[1].loginAttempts > 0
  /\ users[1].lastLogin = <<0>>
  /\ reqs[1].at > 0

\* A request of a protected route arrives in slot 1 carrying the token
\* slot 2's login answered.
usesIssuedToken ==
  /\ free(1)
  /\ reqs'[1] # reqs[1]
  /\ reqs'[1].at = now
  /\ reqs'[1].op \in {"profile", "logout"}
  /\ reqs[2].pc = "done"
  /\ reqs[2].op = "login"
  /\ reqs[2].resp.status = 200
  /\ reqs'[1].headers = [authorization |-> <<"Bearer", reqs[2].resp.body.token>>]

\* C12 (as the code has it): a token a login issued at time t passes the
\* verification of a request that arrives while the clock's whole second is
\* below t's whole second plus 604800, protect then looking up the user of
\* the login and admitting that user when active and unlocked, and is
\* refused as expired from t + 7 days on; a step of a logout changes neither
\* the users nor the polls.
C12_TokenLivesSevenDaysInSeconds ==
  [][/\ usesIssuedToken =>
          /\ (now \div 1000 < (reqs[2].end \div 1000) + 604800)
               => reqs'[1].pc = "protect" /\ reqs'[1].uid = reqs[2].uid
          /\ (now >= reqs[2].end + 604800000)
               => /\ reqs'[1].pc = "done"
                  /\ reqs'[1].resp = [status |-> 401, body |-> [message |-> text("Token expired")]]
     /\ (/\ reqs[1].pc = "protect"
         /\ reqs'[1].pc = "done"
         /\ users[reqs[1].uid] # Null
         /\ users[reqs[1].uid].isActive
         /\ ~(users[reqs[1].uid].lockUntil # Absent
                /\ users[reqs[1].uid].lockUntil[1] > now))
          => reqs'[1].called /\ reqs'[1].uid = reqs[1].uid
     /\ (reqs'[1] # reqs[1] /\ reqs'[1].op = "logout")
          => users' = users /\ polls' = polls]_vars

\* A token issued at 1500 ms opens the profile in the last second it lives.
C12_Witness ==
  /\ reqs[2].pc = "done"
  /\ reqs[2].op = "login"
  /\ reqs[2].resp.status = 200
  /\ reqs[2].end = 1500
  /\ reqs[1].pc = "done"
  /\ reqs[1].op = "profile"
  /\ reqs[1].headers = [authorization |-> <<"Bearer", reqs[2].resp.body.token>>]
  /\ reqs[1].at \div 1000 = 604800
  /\ reqs[1].called

\* C12 (as stated): a token a login issued at time t passes the
\* verification of every request that arrives before t + 7 days.
C12_TokenLivesSevenDays ==
  [][usesIssuedToken =>
       ((now < reqs[2].end + 604800000) => reqs'[1].pc = "protect")]_vars

\* C13: with votes served one after another, a vote for option i of an
\* existing poll, with or without a token, is not refused; when it is
\* answered the status is 200, the stored count of option i is one higher
\* than before, and every other count, the texts, the question, the owner
\* and every other poll are as before.
C13_VoteAddsExactlyOne ==
  [][\A r \in Reqs :
       /\ (/\ reqs[r].pc = "find"
           /\ reqs'[r].pc # "find"
           /\ reqs[r].op = "vote"
           /\ reqs[r].params.id.kind = "oid"
           /\ reqs[r].params.id.n \in 1..Len(polls)
           /\ "optionIndex" \in DOMAIN reqs[r].body
           /\ reqs[r].body.optionIndex.type = "number"
           /\ reqs[r].body.optionIndex.twice % 2 = 0
           /\ reqs[r].body.optionIndex.twice >= 0
           /\ reqs[r].body.optionIndex.twice
                < 2 * Len(polls[reqs[r].params.id.n].options))
            => reqs'[r].pc = "save"
       /\ (reqs[r].pc = "save" /\ reqs'[r].pc = "done") =>
            LET n == reqs[r].params.id.n
                i == (reqs[r].body.optionIndex.twice \div 2) + 1
            IN /\ reqs'[r].resp.status = 200
               /\ reqs'[r].resp.body = polls'[n]
               /\ Len(polls') = Len(polls)
               /\ \A m \in 1..Len(polls) : m # n => polls'[m] = polls[m]
               /\ polls'[n].question = polls[n].question
               /\ polls'[n].createdBy = polls[n].createdBy
               /\ Len(polls'[n].options) = Len(polls[n].options)
               /\ \A j \in 1..Len(polls[n].options) :
                    /\ polls'[n].options[j].text = polls[n].options[j].text
                    /\ polls'[n].options[j].votes =
                         polls[n].options[j].votes + (IF j = i THEN 1 ELSE 0)]_vars

\* A second vote for the same option, sent without a token, was counted.
C13_Witness ==
  /\ reqs[1].pc = "done"
  /\ reqs[1].op = "vote"
  /\ reqs[1].headers = NoFields
  /\ reqs[1].resp.status = 200
  /\ reqs[1].body.optionIndex = number(2)
  /\ polls[1].options[2].votes = 2
  /\ polls[1].options[1].votes = 0

\* no user held before, exactly one has 201 and the other 400.
C15_DuplicateRegisterRefused ==
  /\ \A r \in Reqs :
       (reqs[r].pc = "done" /\ reqs[r].op = "register") =>
         \/ reqs[r].resp.status = 201 /\ reqs[r].uid # 0
         \/ reqs[r].resp.status = 400 /\ reqs[r].uid = 0
  /\ \A r1, r2 \in Reqs :
       (/\ r1 # r2
        /\ reqs[r1].pc = "done" /\ reqs[r1].op = "register"
        /\ reqs[r2].pc = "done" /\ reqs[r2].op = "register"
        /\ \/ trim(reqs[r1].body.username) = trim(reqs[r2].body.username)
           \/ lowercase(reqs[r1].body.email) = lowercase(reqs[r2].body.email)
        /\ reqs[r1].copy = Null /\ reqs[r2].copy = Null)
         => {reqs[r1].resp.status, reqs[r2].resp.status} = {201, 400}

\* C16: no two stored users have the same username, and no two have the
\* same email in lower case.
C16_HandlesAndEmailsUnique ==
  \A i, j \in Ids :
    (i # j /\ users[i] # Null /\ users[j] # Null) =>
      /\ users[i].username # users[j].username
      /\ lowercase(users[i].email) # lowercase(users[j].email)

\* Two requests for bob passed the existence check together; one was
\* inserted, the other refused by the index.
C16_Witness ==
  /\ users[1] # Null
  /\ users[1].username = Bob
  /\ users[2] = Null
  /\ \E r \in Reqs : /\ reqs[r].pc = "done"
                     /\ reqs[r].op = "register"
                     /\ reqs[r].copy = Null
                     /\ reqs[r].resp.status = 500

\* The body fails the route's own validation: a required field is missing
\* or empty, or the password of a register request has fewer than 6
\* characters.
failsValidation(q) ==
  \/ /\ q.op = "login"
     /\ \E f \in {"username", "password"} : f \notin DOMAIN q.body \/ q.body[f] = <<>>
  \/ /\ q.op = "register"
     /\ \/ \E f \in {"username", "password", "email"} :
             f \notin DOMAIN q.body \/ q.body[f] = <<>>
        \/ Len(q.body.password) < 6

\* C17: a register or login request that fails the route's validation is
\* answered 400 in the step of its arrival, without a document having been
\* looked up, and leaves the users collection as it was.
C17_ValidationRefusesBeforeStore ==
  [][\A r \in Reqs :
       (/\ reqs'[r] # reqs[r]
        /\ free(r)
        /\ reqs'[r].op \in {"register", "login"}
        /\ failsValidation(reqs'[r]))
         => /\ reqs'[r].pc = "done"
            /\ reqs'[r].resp.status = 400
            /\ reqs'[r].copy = Null
            /\ reqs'[r].uid = 0
            /\ ~reqs'[r].compared
            /\ users' = users]_vars

\* A registration with the password 123 was refused; bob is not stored.
C17_Witness ==
  /\ reqs[1].pc = "done"
  /\ reqs[1].op = "register"
  /\ "password" \in DOMAIN reqs[1].body
  /\ reqs[1].body.password = <<"1", "2", "3">>
  /\ reqs[1].resp.status = 400
  /\ users[2] = Null

\* The logins that have compared a password and been answered.
comparedLogins ==
  {r \in Reqs : reqs[r].pc = "done" /\ reqs[r].op = "login" /\ reqs[r].compared}

\* C18: when the only logins that have written are k failed ones for one
\* user that all read the same record, the stored counter is k above the
\* counter they read; a lock expiry already past when they write restarts
\* the count, so the counter is then k.
C18_NoFailureLost ==
  (/\ comparedLogins # {}
   /\ \A r \in Reqs : reqs[r].pc \in {"compare", "write"} => reqs[r].op = "login"
   /\ \A r \in comparedLogins : reqs[r].resp.status = 401
   /\ \A r1, r2 \in comparedLogins :
        /\ reqs[r1].copy = reqs[r2].copy
        /\ reqs[r1].uid = reqs[r2].uid)
    => \A r \in comparedLogins :
         users[reqs[r].uid].loginAttempts =
           Cardinality(comparedLogins) +
             (IF reqs[r].copy.lockUntil # Absent /\ reqs[r].copy.lockUntil[1] < reqs[r].stamp
                THEN 0 ELSE reqs[r].copy.loginAttempts)

\* C19: every stored failure counter is at least 0, and is at most 4
\* whenever the record's lock expiry is absent or not in the future.
C19_UnlockedCounterBelowFive ==
  \A u \in Ids :
    users[u] # Null =>
      /\ users[u].loginAttempts >= 0
      /\ (users[u].lockUntil = Absent \/ users[u].lockUntil[1] <= now)
           => users[u].loginAttempts \in 0..4

\* C20: a request whose store operation failed is answered 500 with a
\* message that is not the error's own.
C20_FailureAnsweredGenerically ==
  \A r \in Reqs :
    (reqs[r].pc = "done" /\ "error" \in DOMAIN reqs[r].params) =>
      /\ reqs[r].resp.status = 500
      /\ reqs[r].resp.body.message # text(reqs[r].params.error.message)

\* C21: a register request whose handle has fewer than 3 or more than 30
\* characters, a poll creation by an authenticated user without options,
\* and a vote on an existing poll with an index that is no whole number are
\* each answered 400, and store nothing.
C21_MalformedInputIs400 ==
  \A r \in Reqs :
    reqs[r].pc = "done" =>
      /\ (/\ reqs[r].op = "register"
          /\ ~failsValidation(reqs[r])
          /\ \/ Len(trim(reqs[r].body.username)) < 3
             \/ Len(trim(reqs[r].body.username)) > 30)
           => reqs[r].resp.status = 400 /\ reqs[r].uid = 0
      /\ (/\ reqs[r].op = "createPoll"
          /\ reqs[r].called
          /\ "options" \notin DOMAIN reqs[r].body)
           => reqs[r].resp.status = 400
      /\ (/\ reqs[r].op = "vote"
          /\ reqs[r].copy # Null
          /\ "optionIndex" \in DOMAIN reqs[r].body
          /\ reqs[r].body.optionIndex.type = "number"
          /\ reqs[r].body.optionIndex.twice % 2 # 0)
           => reqs[r].resp.status = 400

\* C22: in each window of each client at most 5 requests to /api/auth and
\* at most 100 requests in all go on to a route, and a request a limiter
\* answers (429) leaves the users, their counters and locks, and the polls
\* as they were.  The step that answers the request in slot r is the one
\* that counts a hit and leaves the other slots alone.
C22_LimitersBoundHandledRequests ==
  [][/\ \A ip \in IPs :
          /\ hits'[ip].auth.handled <= AuthMax
          /\ hits'[ip].general.handled <= GeneralMax
     /\ \A r \in Reqs :
          (/\ hits' # hits
           /\ reqs'[r].pc = "done"
           /\ reqs'[r].resp.status = 429
           /\ reqs'[r].at = now
           /\ \A q \in Reqs \ {r} : /\ reqs'[q].pc = reqs[q].pc
                                     /\ reqs'[q].op = reqs[q].op
                                     /\ reqs'[q].at = reqs[q].at)
            => /\ users' = users
               /\ polls' = polls
               /\ hist' = hist]_vars

C22_Witness ==
  /\ hits[1].general.totalHits > GeneralMax
  /\ hits[1].general.handled = GeneralMax
  /\ reqs[1].pc = "done"
  /\ reqs[1].resp.status = 429
  /\ reqs[1].op = "polls"

\* C23: of the scenario a client sends to the server, the registration is
\* answered 201 with a token, each of the five logins with a wrong password
\* 401, and the login with the right password that follows 423.
C23_ScenarioEndsLocked ==
  \A c \in IPs :
    reqs[c].pc = "done" =>
      LET n == hits[c].general.totalHits
      IN /\ n = 1 => /\ reqs[c].resp.status = 201
                     /\ "token" \in DOMAIN reqs[c].resp.body
         /\ n \in 2..(LockThreshold + 1) => reqs[c].resp.status = 401
         /\ n = LockThreshold + 2 => reqs[c].resp.status = 423

\* C24: a request with a token of the server, not expired on arrival, for
\* an active user is answered 423 by protect and goes no further when the
\* user's stored lock expiry is later than the time protect tests the lock,
\* and is let through when that expiry is that time or earlier; no login is
\* needed in between, and the stored expiry stays as it was.
C24_LockRefusesTokenUntilExpiry ==
  \A r \in Reqs :
    (guardedOf(reqs[r]) /\ carriesJwt(reqs[r])) =>
      LET token == reqs[r].headers.authorization[2]
          user == users[token.id]
      IN (/\ token.key = "JWT_SECRET"
          /\ reqs[r].at \div 1000 < token.exp
          /\ user # Null
          /\ user.isActive
          /\ user.lockUntil # Absent)
           => /\ user.lockUntil[1] > reqs[r].checked
                   => /\ reqs[r].resp.status = 423
                      /\ ~reqs[r].called
                      /\ reqs[r].user = Null
              /\ user.lockUntil[1] <= reqs[r].checked
                   => /\ reqs[r].called
                      /\ reqs[r].user # Null
                      /\ reqs[r].resp.status \in {200, 201, 500}
              /\ user.lockUntil = Some(LockMs)

\* The token issued at time 0, when the lock was set, lets a request through
\* whose lock test is made at the instant the lock runs out, the expiry
\* still stored.
C24_Witness ==
  /\ guardedOf(reqs[1])
  /\ reqs[1].op = "profile"
  /\ reqs[1].headers = [authorization |-> <<"Bearer", generateToken(1, 0)>>]
  /\ users[1].isActive
  /\ users[1].lockUntil = Some(LockMs)
  /\ reqs[1].checked = LockMs
  /\ reqs[1].called
  /\ reqs[1].resp.status = 200

\* C25: with vote requests on one poll interleaved in any way, once every
\* request is answered each option's count is its initial count, 0, plus
\* the number of votes for it that were answered 200.
C25_NoVoteLost ==
  (\A r \in Reqs : reqs[r].pc \in {"idle", "done"}) =>
    \A i \in 1..Len(polls[1].options) :
      polls[1].options[i].votes =
        Cardinality({r \in Reqs : /\ reqs[r].pc = "done"
                                  /\ reqs[r].op = "vote"
                                  /\ reqs[r].resp.status = 200
                                  /\ reqs[r].uid = 1
                                  /\ (reqs[r].body.optionIndex.twice \div 2) + 1 = i})

\* C26: every stored user holds the bcrypt hash of the password it was
\* registered with, never the plaintext and never a hash of the hash:
\* after the insert and the save of register, the saves of successful
\* logins and the updates of failed logins, in whatever order they reach
\* the store, matchPassword with the registration password is true, and
\* a registration answered 201 has stored a document its password matches.
C26_PasswordHashedOnce ==
  /\ \A u \in Ids :
       users[u] # Null =>
         /\ users[u].password # Secret1
         /\ users[u].password = bcryptHash(Secret1)
         /\ matchPassword(users[u], Secret1)
         /\ ~matchPassword(users[u], WrongPw)
  /\ \A r \in Reqs :
       (/\ reqs[r].pc = "done"
        /\ reqs[r].op = "register"
        /\ reqs[r].resp.status = 201)
         => /\ reqs[r].post.password = bcryptHash(reqs[r].body.password)
            /\ matchPassword(users[reqs[r].uid], reqs[r].body.password)

\* A login of the new user was answered 200 between the two writes of his
\* registration, whose save of lastLogin is still to come.
C26_Witness ==
  \E a, b \in Reqs :
    /\ reqs[a].op = "register"
    /\ reqs[a].pc = "update"
    /\ loginOf(reqs[b])
    /\ reqs[b].pc = "done"
    /\ reqs[b].uid = reqs[a].uid
    /\ reqs[b].resp.status = 200
    /\ matchPassword(users[reqs[a].uid], Secret1)

\* C27: isLocked depends on the stored lock expiry and the clock alone and
\* is no stored field: a login of an active user is answered as locked (423)
\* exactly when the document read has a lock expiry later than the time
\* the handler tests it, so not when the expiry is absent, is that very
\* instant, or is in the past.
C27_LockedIffExpiryAfterNow ==
  /\ \A u \in Ids :
       users[u] # Null =>
         /\ "isLocked" \notin DOMAIN users[u]
         /\ users[u].lockUntil = Absent => ~isLocked(users[u], now)
         /\ users[u].lockUntil = Some(now) => ~isLocked(users[u], now)
         /\ (users[u].lockUntil # Absent /\ users[u].lockUntil[1] < now)
              => ~isLocked(users[u], now)
         /\ (users[u].lockUntil # Absent /\ users[u].lockUntil[1] > now)
              => isLocked(users[u], now)
  /\ \A r \in Reqs :
       (loginOf(reqs[r]) /\ reqs[r].copy # Null /\ reqs[r].copy.isActive) =>
         ((reqs[r].pc = "done" /\ reqs[r].resp.status = 423)
            <=> (/\ reqs[r].copy.lockUntil # Absent
                 /\ reqs[r].copy.lockUntil[1] > reqs[r].checked))

\* A login read the document at the very instant its lock ran out and went
\* on to compare the password.
C27_Witness ==
  /\ loginOf(reqs[1])
  /\ reqs[1].copy # Null
  /\ reqs[1].copy.isActive
  /\ reqs[1].copy.lockUntil = Some(reqs[1].checked)
  /\ reqs[1].pc = "done"
  /\ reqs[1].resp.status = 200

\* C28: with logins for one user interleaved in any way, in every state a
\* stored lock expiry in the future comes with a counter of at least 5, a
\* counter of at least 5 comes with a stored lock expiry, and the counter
\* is at most 5.
C28_CounterAndLockAgree ==
  \A u \in Ids :
    users[u] # Null =>
      /\ (users[u].lockUntil # Absent /\ users[u].lockUntil[1] > now)
           => users[u].loginAttempts >= LockThreshold
      /\ users[u].loginAttempts >= LockThreshold => users[u].lockUntil # Absent
      /\ users[u].loginAttempts <= LockThreshold

\* C29: whatever requests the API has served, every user it created has
\* role 'user' and is active, so a guard for admins, or for moderators and
\* admins, applied to such a user answers 403 and does not call the handler.
C29_ApiUsersStayPlainUsers ==
  /\ \A u \in Ids :
       users[u] # Null => users[u].role = "user" /\ users[u].isActive
  /\ \A r \in Reqs :
       (/\ reqs[r].pc = "done"
        /\ reqs[r].op = "authorize"
        /\ reqs[r].user # Null
        /\ "user" \notin reqs[r].roles)
         => /\ ~reqs[r].called
            /\ reqs[r].resp.status = 403

\* The guard for moderators and admins has refused a registered user.
C29_Witness ==
  /\ reqs[1].pc = "done"
  /\ reqs[1].op = "authorize"
  /\ reqs[1].user # Null
  /\ reqs[1].roles = {"moderator", "admin"}
  /\ users[reqs[1].uid].role = "user"
  /\ ~reqs[1].called
  /\ reqs[1].resp.status = 403

\* C30: a registration the RegisterPage sends with a username no stored
\* user has and a password of at least 6 characters is answered 201, and
\* the page then holds the answer's token in localStorage.
C30_PageRegistrationAccepted ==
  \A r \in Reqs :
    (/\ reqs[r].pc = "done"
     /\ reqs[r].op = "register"
     /\ \E u \in {Alice, Bob}, p \in {Secret1, WrongPw, <<"1", "2", "3">>} :
          /\ reqs[r].body = pageRegisterBody(u, p)
          /\ Len(p) >= MinPassword
          /\ \A i \in Ids : users[i] # Null => users[i].username # u)
      => /\ reqs[r].resp.status = 201
         /\ "token" \in DOMAIN localStorageAfter(NoFields, reqs[r].resp)

====
